---- MODULE Spec2Model ----
(***************************************************************************)
(* mcap2hdf5: the time synchronizer (mcap2hdf5/synchronizer.py), the       *)
(* growable HDF5 writer (pipeline/hdf5_writer.py) and the driver loop      *)
(* (generate_dataset.py) as one state machine.                             *)
(*                                                                         *)
(* Time is counted in ticks of 0.05 s.  A transform matrix is represented  *)
(* by its translation along one axis, in units of 1/PoseScale, so that     *)
(* every blend (1-alpha)*a + alpha*b the code can compute is an integer.   *)
(* A lidar point is a number that names the message and the row it came    *)
(* from; 0 is the fill value of an HDF5 dataset.                           *)
(***************************************************************************)
EXTENDS Integers, Sequences, FiniteSets, TLC

\* ------------------------------------------------------------------ bounds
MaxMsgs == 5        \* messages of the log the driver reads
MaxSyncMsgs == 4    \* messages given to a synchronizer used alone
MaxTs == 3          \* timestamps are 0..MaxTs
MaxPoints == 2      \* points of a lidar message given to a writer used alone
MaxSamples == 4     \* samples given to a writer used alone
MaxBatchLen == 3    \* samples of one batch given to a writer used alone

\* ------------------------------------------------------- program constants
\* scaled down: the capacities are 100, 100 and 1000000 in the source
TF_CACHE_SIZE == 2
HDF5_WRITE_BATCH_SIZE == 2
INITIAL_LIDAR_CAPACITY == 1

LIDAR_TOPIC == "lidar"
CAMERA_IMAGE_TOPIC == "camera"
TF_TOPIC == "tf"
OTHER_TOPIC == "other"
TF_STATIC_TOPIC == "tf_static"

None == -1
Keys == {"k1", "k2"}
Timestamps == 0..MaxTs
SensorTopics == {LIDAR_TOPIC, CAMERA_IMAGE_TOPIC}

\* SENSOR_SYNC_THRESHOLD = 0.05 s and MAX_CHUNK_GAP = 0.15 s, in ticks, with the
\* gap scaled down to two ticks
SENSOR_SYNC_THRESHOLD == 1
MAX_CHUNK_GAP == 2
\* (syncThreshold, maxGap) pairs a synchronizer is constructed with
Configs == {<<SENSOR_SYNC_THRESHOLD, MAX_CHUNK_GAP>>, <<0, 1>>}

VARIABLES
    package,                    \* the package the synchronizer class is taken from
    syncThreshold, maxGap,      \* SensorDataSynchronizer.__init__ arguments
    chunkBuffer,                \* topic -> sequence of chunk entries
    lastTimestamps,             \* topic -> timestamp or None
    tfCache,                    \* key -> sequence of [timestamp, tfMatrix]
    pc,                         \* where the driver (or the caller) stands
    streamMessage,              \* the message being processed
    pending,                    \* samples the suspended flush has yet to yield
    sampleBatch, chunkId, flushEventTriggered, totalSamples,
    h5File,                     \* the store the writer owns
    initialized,                \* HDF5Writer.initialized
    life,                       \* the writer object: finalize calls, closes, destruction
    staticTransforms,           \* MCAPSource.staticTransforms: <<>> for None, else <<message>>
    staticSeen,                 \* history: the frame pairs of every /tf_static message read
    handler,                    \* the legacy MCAPHandler and the iteration over it
    converterCall,              \* the last call made directly on a converter or a query, and its result
    nMsgs,                      \* messages read so far
    tfHistory,                  \* history: key -> every entry ever ingested
    emitted,                    \* history: every fused sample, in emission order
    lidarSeen,                  \* history: ids of the lidar messages received
    resolved,                   \* history: ids of the lidar entries flushes resolved
    flushCount,                 \* history: number of flushes run
    lastFlush,                  \* history: what the last flush saw and produced
    written,                    \* history: the samples of the completed batches
    lastCall,                   \* history: the last writeBatch call and its outcome
    nGiven                      \* history: samples handed to a writer used alone

syncVars == <<package, syncThreshold, maxGap, chunkBuffer, lastTimestamps, tfCache>>
driverVars == <<pc, streamMessage, pending, sampleBatch, chunkId,
                flushEventTriggered, totalSamples, nMsgs>>
writerVars == <<h5File, initialized, life>>
readerVars == <<staticTransforms, staticSeen, handler>>
histVars == <<tfHistory, emitted, lidarSeen, resolved, flushCount, lastFlush, written,
              lastCall, nGiven>>
vars == <<syncVars, driverVars, writerVars, converterCall, readerVars, histVars>>

\* ----------------------------------------------------------------- helpers
Abs(x) == IF x < 0 THEN -x ELSE x
Max(a, b) == IF a >= b THEN a ELSE b

RECURSIVE Product(_)
Product(n) == IF n <= 1 THEN 1 ELSE n * Product(n - 1)

\* every divisor afterTs - beforeTs the model can meet divides PoseScale
PoseScale == Product(MaxTs)

Take(s, n) == SubSeq(s, 1, IF n < Len(s) THEN n ELSE Len(s))

\* h5py Dataset.resize along axis 0: keeps the leading rows, fills with fill
Resize(s, n, fill) == [i \in 1..n |-> IF i <= Len(s) THEN s[i] ELSE fill]

RECURSIVE SumSeq(_)
SumSeq(s) == IF s = <<>> THEN 0 ELSE Head(s) + SumSeq(Tail(s))

\* ------------------------------------------------ message_converter (used)
\* MessageConverter.transformToMatrix: the transform's translation, as a
\* matrix in units of 1/PoseScale
transformToMatrix(transform) == transform.translation * PoseScale

\* np.clip(alpha, 0.0, 1.0) on alpha = num/den with den > 0
clipAlpha(num, den) == IF num < 0 THEN 0 ELSE IF num > den THEN den ELSE num

\* MessageConverter.interpolateMatrix, translation part:
\* (1 - alpha) * translation1 + alpha * translation2 with alpha = num/den
interpolateMatrix(matrix1, matrix2, num, den) ==
    ((den - num) * matrix1 + num * matrix2) \div den

\* MessageConverter.lidarToNumpy as the writer sees it: one row per point of
\* the message, or the ValueError of a message that lacks a requested field
lidarFails(lidarMsg) == ~lidarMsg.ok
lidarToNumpy(lidarMsg) == [j \in 1..lidarMsg.n |-> lidarMsg.id * (MaxPoints + 1) + j]

\* MessageConverter.compressedImageToNumpy: the decoded pixels of the message
compressedImageToNumpy(imageMsg) == 100 + imageMsg.id

\* cameraData.shape: (height, width, channels) of the decoded image
imageShapeOf(imageMsg) == imageMsg.shape

\* ------------------------------------- MessageConverter.lidarToNumpy
\* no MessageConverter call made yet
noConversion == [fn |-> "none"]

\* DEFAULT_LIDAR_MESSAGE_FIELDS
DEFAULT_LIDAR_MESSAGE_FIELDS == <<"x", "y", "z", "intensity">>

\* np.dtype(POINTFIELD_DATATYPE_MAP[datatype]).itemsize
itemsize(datatype) ==
    CASE datatype \in {1, 2} -> 1
      [] datatype \in {3, 4} -> 2
      [] datatype \in {5, 6, 7} -> 4
      [] datatype = 8 -> 8

\* the signed integer types and the floating types of POINTFIELD_DATATYPE_MAP
isSignedInt(datatype) == datatype \in {1, 3, 5}
isFloating(datatype) == datatype \in {7, 8}

RECURSIVE Pow256(_)
Pow256(n) == IF n = 0 THEN 1 ELSE 256 * Pow256(n - 1)

\* the unsigned little-endian number a byte string spells
RECURSIVE littleEndian(_)
littleEndian(bytes) ==
    IF bytes = <<>> THEN 0 ELSE Head(bytes) + 256 * littleEndian(Tail(bytes))

\* one element of np.frombuffer(fieldBytes, dtype=fieldDtype): an integer by
\* two's complement, or the bit pattern of a float (its bytes)
scalarOf(bytes, datatype) ==
    LET u == littleEndian(bytes)
        half == Pow256(Len(bytes)) \div 2
    IN IF isFloating(datatype) THEN [bits |-> TRUE, v |-> bytes]
       ELSE IF isSignedInt(datatype) /\ u >= half THEN [bits |-> FALSE, v |-> u - 2 * half]
       ELSE [bits |-> FALSE, v |-> u]

\* np.frombuffer(fieldBytes, dtype): consecutive groups of itemsize bytes
RECURSIVE frombuffer(_, _)
frombuffer(bytes, datatype) ==
    IF bytes = <<>> THEN <<>>
    ELSE <<scalarOf(SubSeq(bytes, 1, itemsize(datatype)), datatype)>>
           \o frombuffer(SubSeq(bytes, itemsize(datatype) + 1, Len(bytes)), datatype)

\* the assignment into a float32 column: a float32 keeps its bits, an integer
\* of at most 16 bits is exactly representable
toFloat32(scalar) == scalar

\* pointByteBuffer.reshape(-1, point_step): the rows of the payload
reshapeRows(data, point_step) ==
    [r \in 1..(Len(data) \div point_step) |->
       SubSeq(data, (r - 1) * point_step + 1, r * point_step)]

\* a slice that takes the first itemsize bytes of the row whatever the offset
sliceFromRowStart(row, field) ==
    SubSeq(row, 1, IF itemsize(field.datatype) > Len(row) THEN Len(row)
                   ELSE itemsize(field.datatype))

\* pointByteBuffer[r, field.offset:end]: a slice is cut at the end of the row
fieldSlice(row, field) ==
    LET end == field.offset + itemsize(field.datatype)
    IN SubSeq(row, field.offset + 1, IF end > Len(row) THEN Len(row) ELSE end)

\* pointByteBuffer[:, field.offset:end].tobytes()
RECURSIVE fieldBytesFrom(_, _, _)
fieldBytesFrom(rows, field, r) ==
    IF r > Len(rows) THEN <<>>
    ELSE fieldSlice(rows[r], field) \o fieldBytesFrom(rows, field, r + 1)

\* fieldMap[fieldName]: the last descriptor of that name
fieldMapGet(fields, fieldName) ==
    LET positions == {i \in 1..Len(fields) : fields[i].name = fieldName}
    IN fields[CHOOSE i \in positions : \A j \in positions : j <= i]

\* the column of one requested field: pointCloud[:, index] = np.frombuffer(...)
\* raises unless the bytes make whole elements and these are one per row (or
\* one in all, which numpy broadcasts)
columnOf(rows, field) ==
    LET bytes == fieldBytesFrom(rows, field, 1)
        size == itemsize(field.datatype)
    IN IF Len(bytes) % size # 0 THEN [ok |-> FALSE, column |-> <<>>]
       ELSE LET elements == frombuffer(bytes, field.datatype)
            IN IF Len(elements) = Len(rows)
               THEN [ok |-> TRUE, column |-> [r \in 1..Len(rows) |-> toFloat32(elements[r])]]
               ELSE IF Len(elements) = 1
               THEN [ok |-> TRUE, column |-> [r \in 1..Len(rows) |-> toFloat32(elements[1])]]
               ELSE [ok |-> FALSE, column |-> <<>>]

\* a check that looks at the first requested name only
missingFirstOnly(fields, fieldNames) ==
    IF fieldNames # <<>> /\ \A i \in 1..Len(fields) : fields[i].name # fieldNames[1]
    THEN <<fieldNames[1]>> ELSE <<>>

\* for fieldName in fieldNames: if fieldName not in fieldMap: the first
\* requested name without a descriptor, as <<name>>, or <<>>
missingField(fields, fieldNames) ==
    LET absent == {k \in 1..Len(fieldNames) :
                     \A i \in 1..Len(fields) : fields[i].name # fieldNames[k]}
    IN IF absent = {} THEN <<>>
       ELSE <<fieldNames[CHOOSE k \in absent : \A l \in absent : k <= l]>>

\* MessageConverter.lidarToNumpy(lidarMsg, fieldNames), byte by byte
lidarToNumpyBytes(lidarMsg, fieldNames) ==
    LET missing == missingField(lidarMsg.fields, fieldNames)
        rows == reshapeRows(lidarMsg.data, lidarMsg.point_step)
        inFieldMap(fieldName) == \E i \in 1..Len(lidarMsg.fields) :
                                    lidarMsg.fields[i].name = fieldName
        columns == [j \in 1..Len(fieldNames) |->
                      columnOf(rows, fieldMapGet(lidarMsg.fields, fieldNames[j]))]
    IN IF missing # <<>>
       THEN [raised |-> "ValueError", message |-> <<"PointCloud2 missing field: ", missing[1]>>]
       ELSE IF \E j \in 1..Len(fieldNames) : ~inFieldMap(fieldNames[j])
       THEN [raised |-> "KeyError", message |-> <<>>]
       ELSE IF \E j \in 1..Len(fieldNames) : ~columns[j].ok
       THEN [raised |-> "ValueError", message |-> <<>>]
       ELSE [raised |-> "", dtype |-> "float32",
             shape |-> <<Len(rows), Len(fieldNames)>>,
             pointCloud |-> [r \in 1..Len(rows) |->
                               [j \in 1..Len(fieldNames) |-> columns[j].column[r]]]]

\* ---------------------------------- MessageConverter.interpolateMatrix
\* quaternions are <<x, y, z, w>> with integer components; a rotation block is
\* a 3x3 matrix of fractions num[i][j] / den in lowest terms
RECURSIVE Gcd(_, _)
Gcd(a, b) == IF b = 0 THEN a ELSE Gcd(b, a % b)

RECURSIVE GcdOfSeq(_)
GcdOfSeq(ns) == IF ns = <<>> THEN 0 ELSE Gcd(Abs(Head(ns)), GcdOfSeq(Tail(ns)))

\* np.dot(quat1, quat2)
dot(quat1, quat2) ==
    quat1[1] * quat2[1] + quat1[2] * quat2[2] + quat1[3] * quat2[3] + quat1[4] * quat2[4]

\* R.from_quat(quat).as_matrix(): the rotation of the normalised quaternion
fromQuatAsMatrix(quat) ==
    LET x == quat[1]
        y == quat[2]
        z == quat[3]
        w == quat[4]
        n == dot(quat, quat)
        raw == << <<n - 2 * (y * y + z * z), 2 * (x * y - z * w), 2 * (x * z + y * w)>>,
                  <<2 * (x * y + z * w), n - 2 * (x * x + z * z), 2 * (y * z - x * w)>>,
                  <<2 * (x * z - y * w), 2 * (y * z + x * w), n - 2 * (x * x + y * y)>> >>
        g == GcdOfSeq(raw[1] \o raw[2] \o raw[3] \o <<n>>)
    IN [num |-> [i \in 1..3 |-> [j \in 1..3 |-> raw[i][j] \div g]], den |-> n \div g]

\* the unit quaternions with integer or half-integer components, times two
UnitQuats ==
    {quat \in [1..4 -> -2..2] : dot(quat, quat) = 4}

\* the sign of a quaternion: that of its first non-zero component among w, x, y, z
signOf(quat) ==
    IF quat[4] # 0 THEN (IF quat[4] > 0 THEN 1 ELSE -1)
    ELSE IF quat[1] # 0 THEN (IF quat[1] > 0 THEN 1 ELSE -1)
    ELSE IF quat[2] # 0 THEN (IF quat[2] > 0 THEN 1 ELSE -1)
    ELSE (IF quat[3] > 0 THEN 1 ELSE -1)

\* the unit quaternion of positive sign of each rotation that has one in
\* UnitQuats
quatOfBlock ==
    [block \in {fromQuatAsMatrix(quat) : quat \in UnitQuats} |->
       CHOOSE quat \in UnitQuats : fromQuatAsMatrix(quat) = block /\ signOf(quat) = 1]

\* R.from_matrix(block).as_quat(): a unit quaternion of that rotation; which of
\* the two opposite ones scipy returns is left open, sign selects it
fromMatrixAsQuat(block, sign) ==
    [i \in 1..4 |-> sign * quatOfBlock[block][i]]

\* a blend with the weights of the two ends exchanged
quatLerpSwapped(quat1, quat2, num, den) ==
    [i \in 1..4 |-> num * quat1[i] + (den - num) * quat2[i]]

\* (1.0 - alpha) * quat1 + alpha * quat2 with alpha = num/den, times den
quatLerp(quat1, quat2, num, den) ==
    [i \in 1..4 |-> (den - num) * quat1[i] + num * quat2[i]]

\* MessageConverter.interpolateMatrix(matrix1, matrix2, alpha) on whole rigid
\* transforms, alpha = num/den: the translation is blended linearly, the
\* rotation by a normalised linear blend of the quaternions, the second one
\* negated when their dot product is negative; the bottom row is that of np.eye
interpolateRigid(matrix1, matrix2, num, den, sign1, sign2) ==
    LET quat1 == fromMatrixAsQuat(matrix1.rotation, sign1)
        q2 == fromMatrixAsQuat(matrix2.rotation, sign2)
        quat2 == IF dot(quat1, q2) < 0 THEN [i \in 1..4 |-> -q2[i]] ELSE q2
        quatInterp == quatLerp(quat1, quat2, num, den)
    IN [translation |-> interpolateMatrix(matrix1.translation, matrix2.translation, num, den),
        rotation |-> fromQuatAsMatrix(quatInterp),
        bottom |-> <<0, 0, 0, 1>>]

\* a call interpolateMatrix(matrix1, matrix2) that leaves alpha out: the
\* signature (matrix1, matrix2, alpha) gives alpha no default value, so Python
\* raises TypeError when it binds the arguments and the body never runs
interpolateMatrixOmittingAlpha(matrix1, matrix2, sign1, sign2) ==
    [raised |-> "TypeError"]

\* ------------------------------------------------ SensorDataSynchronizer
emptyBuffers == [t \in SensorTopics |-> <<>>]
noTimestamps == [t \in SensorTopics |-> None]

\* a cache that drops the newest entry of a full list
evictNewest(entries) ==
    IF Len(entries) > TF_CACHE_SIZE THEN SubSeq(entries, 1, Len(entries) - 1) ELSE entries

\* if len(self.tfCache[key]) > TF_CACHE_SIZE: self.tfCache[key].pop(0)
evict(entries) ==
    IF Len(entries) > TF_CACHE_SIZE THEN Tail(entries) ELSE entries

\* one pass of the loop body of updateTFCache: append, then evict the oldest
ingest(cache, key, entry) ==
    LET old == IF key \in DOMAIN cache THEN cache[key] ELSE <<>>
        new == Append(old, entry)
        kept == evict(new)
    IN [k \in DOMAIN cache \cup {key} |-> IF k = key THEN kept ELSE cache[k]]

RECURSIVE updateTFCacheFrom(_, _, _)
updateTFCacheFrom(cache, tfEntry, index) ==
    IF index > Len(tfEntry.rosMsg.transforms) THEN cache
    ELSE LET tfStamped == tfEntry.rosMsg.transforms[index]
             entry == [timestamp |-> tfEntry.timestamp,
                       tfMatrix |-> transformToMatrix(tfStamped)]
         IN updateTFCacheFrom(ingest(cache, tfStamped.key, entry), tfEntry, index + 1)

\* a cache update that ingests only the first transform of a message
updateTFCacheFirstOnly(cache, tfEntry) ==
    LET tfStamped == tfEntry.rosMsg.transforms[1]
    IN ingest(cache, tfStamped.key,
              [timestamp |-> tfEntry.timestamp, tfMatrix |-> transformToMatrix(tfStamped)])

updateTFCache(cache, tfEntry) == updateTFCacheFrom(cache, tfEntry, 1)

\* a gap check that fires on a gap equal to maxGap
checkFlushConstraintInclusive(sensorTopicName, currentTimestamp) ==
    LET lastTimestamp == lastTimestamps[sensorTopicName]
    IN IF lastTimestamp = None THEN FALSE
       ELSE (currentTimestamp - lastTimestamp) >= maxGap

\* the gap a message is checked against: self.maxGap in mcap2hdf5, the
\* configuration constant MAX_CHUNK_GAP in pipeline
gapUsed == IF package = "pipeline" THEN MAX_CHUNK_GAP ELSE maxGap

checkFlushConstraint(sensorTopicName, currentTimestamp) ==
    LET lastTimestamp == lastTimestamps[sensorTopicName]
    IN IF lastTimestamp = None THEN FALSE
       ELSE (currentTimestamp - lastTimestamp) > gapUsed

\* findClosestFrame's None
NoFrame == [timestamp |-> None]

\* a scan that keeps the last of several frames at the minimal difference
RECURSIVE closestFromLast(_, _, _, _, _)
closestFromLast(targetTimestamp, frames, index, closestFrame, minDiff) ==
    IF index > Len(frames) THEN closestFrame
    ELSE LET frame == frames[index]
             diff == IF frame.timestamp >= targetTimestamp
                     THEN frame.timestamp - targetTimestamp
                     ELSE targetTimestamp - frame.timestamp
         IN IF minDiff = None \/ diff <= minDiff
            THEN closestFromLast(targetTimestamp, frames, index + 1, frame, diff)
            ELSE closestFromLast(targetTimestamp, frames, index + 1, closestFrame, minDiff)

\* the scan of findClosestFrame from position index on; minDiff = None is inf
RECURSIVE closestFrom(_, _, _, _, _)
closestFrom(targetTimestamp, frames, index, closestFrame, minDiff) ==
    IF index > Len(frames) THEN closestFrame
    ELSE LET frame == frames[index]
             diff == Abs(frame.timestamp - targetTimestamp)
         IN IF minDiff = None \/ diff < minDiff
            THEN closestFrom(targetTimestamp, frames, index + 1, frame, diff)
            ELSE closestFrom(targetTimestamp, frames, index + 1, closestFrame, minDiff)

\* a search that returns the first buffered frame whatever its distance
findFirstFrame(targetTimestamp, frames) ==
    IF frames = <<>> THEN NoFrame ELSE frames[1]

findClosestFrame(targetTimestamp, frames) ==
    IF frames = <<>> THEN NoFrame
    ELSE closestFrom(targetTimestamp, frames, 1, NoFrame, None)

\* a scan that, once it has found the entry after the target, goes on to the
\* end of the list for entries before the target
scanTfWholeList(tfList, targetTimestamp, index, beforeIdx) ==
    LET atOrAfter == {i \in 1..Len(tfList) : tfList[i].timestamp >= targetTimestamp}
        afterIdx == IF atOrAfter = {} THEN 0
                    ELSE CHOOSE i \in atOrAfter : \A j \in atOrAfter : i <= j
        before == {i \in 1..Len(tfList) : tfList[i].timestamp < targetTimestamp}
    IN IF afterIdx # 0 /\ tfList[afterIdx].timestamp = targetTimestamp
       THEN <<afterIdx, afterIdx>>
       ELSE <<IF before = {} THEN 0 ELSE CHOOSE i \in before : \A j \in before : j <= i,
              afterIdx>>

\* the index scan of interpolateTransforms: <<beforeIdx, afterIdx>>, 0 for None;
\* the scan stops at the first entry at or after the target
RECURSIVE scanTf(_, _, _, _)
scanTf(tfList, targetTimestamp, index, beforeIdx) ==
    IF index > Len(tfList) THEN <<beforeIdx, 0>>
    ELSE LET ts == tfList[index].timestamp
             b == IF ts <= targetTimestamp THEN index ELSE beforeIdx
         IN IF ts >= targetTimestamp THEN <<b, index>>
            ELSE scanTf(tfList, targetTimestamp, index + 1, b)

\* the transform interpolateTransforms stores for one key with a non-empty list
interpolateKey(tfList, targetTimestamp) ==
    LET idx == scanTf(tfList, targetTimestamp, 1, 0)
        beforeIdx == idx[1]
        afterIdx == idx[2]
    IN IF beforeIdx # 0 /\ afterIdx # 0
       THEN IF beforeIdx = afterIdx THEN tfList[beforeIdx].tfMatrix
            ELSE LET before == tfList[beforeIdx]
                     after == tfList[afterIdx]
                     den == after.timestamp - before.timestamp
                     num == targetTimestamp - before.timestamp
                 IN interpolateMatrix(before.tfMatrix, after.tfMatrix,
                                      clipAlpha(num, den), den)
       ELSE IF beforeIdx # 0 THEN tfList[beforeIdx].tfMatrix
       ELSE tfList[afterIdx].tfMatrix

\* a query that leaves out a key whose entries all lie on one side of the target
interpolateTransformsWithin(cache, targetTimestamp) ==
    LET present == {k \in DOMAIN cache :
                      /\ \E i \in 1..Len(cache[k]) : cache[k][i].timestamp <= targetTimestamp
                      /\ \E i \in 1..Len(cache[k]) : cache[k][i].timestamp >= targetTimestamp}
    IN [k \in present |-> interpolateKey(cache[k], targetTimestamp)]

interpolateTransforms(cache, targetTimestamp) ==
    LET present == {k \in DOMAIN cache : cache[k] # <<>>}
    IN [k \in present |-> interpolateKey(cache[k], targetTimestamp)]

\* a flush that rejects a difference equal to the threshold
meetsOrExceedsThreshold(timeDiff) == timeDiff >= syncThreshold

\* the threshold a pair is checked against: self.syncThreshold in mcap2hdf5,
\* the configuration constant SENSOR_SYNC_THRESHOLD in pipeline
thresholdUsed == IF package = "pipeline" THEN SENSOR_SYNC_THRESHOLD ELSE syncThreshold

\* flushSamples' test on timeDiff
exceedsThreshold(timeDiff) == timeDiff > thresholdUsed

\* the loop of flushSamples over lidarFrames[index..]: the samples list
RECURSIVE pairFrom(_, _, _, _)
pairFrom(lidarFrames, cameraFrames, cache, index) ==
    IF index > Len(lidarFrames) THEN <<>>
    ELSE LET lidarEntry == lidarFrames[index]
             lidarTimestamp == lidarEntry.timestamp
             closestCamera == findClosestFrame(lidarTimestamp, cameraFrames)
             rest == pairFrom(lidarFrames, cameraFrames, cache, index + 1)
         IN IF closestCamera.timestamp = None THEN rest
            ELSE IF exceedsThreshold(Abs(lidarTimestamp - closestCamera.timestamp))
            THEN rest
            ELSE <<[lidar |-> lidarEntry,
                    camera |-> closestCamera,
                    transforms |-> interpolateTransforms(cache, lidarTimestamp),
                    timestamp |-> lidarTimestamp,
                    chunkId |-> None]>> \o rest

\* flushSamples up to its first yield: the samples, and the state it leaves
flushedSamples == pairFrom(chunkBuffer[LIDAR_TOPIC], chunkBuffer[CAMERA_IMAGE_TOPIC],
                           tfCache, 1)
\* a flush that keeps the camera buffer for the next window
flushedBuffersKeepCamera ==
    [emptyBuffers EXCEPT ![CAMERA_IMAGE_TOPIC] = chunkBuffer[CAMERA_IMAGE_TOPIC]]
flushedBuffers == emptyBuffers
\* a flush that keeps the camera topic's last-seen timestamp
flushedTimestampsKeepCamera ==
    [noTimestamps EXCEPT ![CAMERA_IMAGE_TOPIC] = lastTimestamps[CAMERA_IMAGE_TOPIC]]
flushedTimestamps == noTimestamps
\* a flush that clears the transform cache with the buffers
flushedCacheCleared == <<>>
flushedCache == tfCache

\* ------------------------------------------------------------- HDF5Writer
\* h5py.File(filePath, "w"): an open file with no group, dataset or attribute
newFile == [created |-> FALSE, closed |-> FALSE,
            timestamps |-> <<>>, chunk_ids |-> <<>>,
            offsets |-> <<>>, counts |-> <<>>, images |-> <<>>,
            data |-> <<>>, transforms |-> <<>>, imageShape |-> None,
            static_transforms |-> [exists |-> FALSE, entries |-> <<>>],
            num_samples |-> None, lidar_point_offset |-> None]

\* h5File.attrs.get(name, 0)
attrsGet(value) == IF value = None THEN 0 ELSE value

createDatasets(f, sampleTemplate) ==
    [f EXCEPT !.created = TRUE,
              !.timestamps = <<>>, !.chunk_ids = <<>>,
              !.data = Resize(<<>>, INITIAL_LIDAR_CAPACITY, 0),
              !.offsets = <<>>, !.counts = <<>>,
              !.images = <<>>,
              !.imageShape = imageShapeOf(sampleTemplate.camera.rosMsg),
              !.transforms = <<>>,
              !.num_samples = 0,
              !.lidar_point_offset = 0]

resizeDatasets(f, newSize) ==
    [f EXCEPT !.timestamps = Resize(@, newSize, 0),
              !.chunk_ids = Resize(@, newSize, 0),
              !.offsets = Resize(@, newSize, 0),
              !.counts = Resize(@, newSize, 0),
              !.images = Resize(@, newSize, 0)]

\* a pool that grows to the size needed and no further
resizeLidarDataExact(f, minSize) == [f EXCEPT !.data = Resize(@, minSize, 0)]

resizeLidarData(f, minSize) ==
    LET currentSize == Len(f.data)
        newSize == Max(minSize, currentSize * 2)
    IN [f EXCEPT !.data = Resize(@, newSize, 0)]

\* the pool with lidarData stored at rows pointOffset .. pointOffset + numPoints - 1
storePoints(data, pointOffset, lidarData) ==
    [i \in 1..Len(data) |->
        IF pointOffset < i /\ i <= pointOffset + Len(lidarData)
        THEN lidarData[i - pointOffset] ELSE data[i]]

\* a writer that appends one entry to the dataset of a key
tfLengthByOne(dataset, globalIndex) == Len(dataset) + 1

\* the length the loop over sample[TRANSFORMS] gives the dataset of a key
tfLength(dataset, globalIndex) == globalIndex + 1

\* the loop over sample[TRANSFORMS]: create on first sight, resize, store
writeTransforms(tf, globalIndex, transforms) ==
    [k \in DOMAIN tf \cup DOMAIN transforms |->
        IF k \in DOMAIN transforms
        THEN LET dataset == IF k \in DOMAIN tf THEN tf[k] ELSE <<>>
                 resized == Resize(dataset, tfLength(dataset, globalIndex), 0)
             IN [resized EXCEPT ![globalIndex + 1] = transforms[k]]
        ELSE tf[k]]

\* a writer that leaves the pool cursor where it was
pointOffsetKept(pointOffset, numPoints) == pointOffset

\* h5File.attrs[LIDAR_POINT_OFFSET_ATTRIBUTE] = pointOffset + numPoints
nextPointOffset(pointOffset, numPoints) == pointOffset + numPoints

\* a store that accepts an image of any shape
imageNeverFails(f, imageMsg) == FALSE

\* h5File[CAMERA_IMAGES_DATASET_PATH][globalIndex] = cameraData raises when
\* the shape of cameraData is not the per-sample shape of the dataset
imageFails(f, imageMsg) == imageShapeOf(imageMsg) # f.imageShape

\* the body of writeBatch's loop for one sample up to the update of the pool
\* cursor: timestamp, chunk id, points, offset and count
writeLidarPart(f, globalIndex, sample) ==
    LET lidarData == lidarToNumpy(sample.lidar.rosMsg)
        pointOffset == attrsGet(f.lidar_point_offset)
        numPoints == Len(lidarData)
        grown == IF pointOffset + numPoints > Len(f.data)
                 THEN resizeLidarData(f, pointOffset + numPoints) ELSE f
    IN [grown EXCEPT
          !.timestamps[globalIndex + 1] = sample.timestamp,
          !.chunk_ids[globalIndex + 1] = sample.chunkId,
          !.data = storePoints(@, pointOffset, lidarData),
          !.offsets[globalIndex + 1] = pointOffset,
          !.counts[globalIndex + 1] = numPoints,
          !.lidar_point_offset = nextPointOffset(pointOffset, numPoints)]

\* the body of writeBatch's loop for one sample whose payloads decode and
\* whose image fits
writeSample(f, globalIndex, sample) ==
    [writeLidarPart(f, globalIndex, sample) EXCEPT
          !.images[globalIndex + 1] = compressedImageToNumpy(sample.camera.rosMsg),
          !.transforms = writeTransforms(@, globalIndex, sample.transforms)]

\* writeBatch's loop from position index on; stops at the first sample whose
\* lidar message does not decode, keeping what the earlier ones wrote, or
\* whose image does not fit, keeping also the lidar part of that sample;
\* applied counts the samples stored in full, pooled those whose points were
\* stored
RECURSIVE writeSamples(_, _, _, _)
writeSamples(f, samples, startIndex, index) ==
    IF index > Len(samples)
    THEN [file |-> f, ok |-> TRUE, applied |-> Len(samples), pooled |-> Len(samples)]
    ELSE IF lidarFails(samples[index].lidar.rosMsg)
    THEN [file |-> f, ok |-> FALSE, applied |-> index - 1, pooled |-> index - 1]
    ELSE IF imageFails(f, samples[index].camera.rosMsg)
    THEN [file |-> writeLidarPart(f, startIndex + index - 1, samples[index]),
          ok |-> FALSE, applied |-> index - 1, pooled |-> index]
    ELSE writeSamples(writeSample(f, startIndex + index - 1, samples[index]),
                      samples, startIndex, index + 1)

\* a writeBatch that starts every batch at row 0
startIndexZero(f) == 0

\* startIndex = h5File.attrs.get(NUM_SAMPLES_ATTRIBUTE, 0)
startIndexOf(f) == attrsGet(f.num_samples)

writeBatch(f, init, samples) ==
    IF samples = <<>>
    THEN [file |-> f, initialized |-> init, ok |-> TRUE, applied |-> 0, pooled |-> 0]
    ELSE LET made == IF ~init THEN createDatasets(f, samples[1]) ELSE f
             startIndex == startIndexOf(made)
             numNewSamples == Len(samples)
             sized == resizeDatasets(made, startIndex + numNewSamples)
             r == writeSamples(sized, samples, startIndex, 1)
         IN [file |-> IF r.ok
                      THEN [r.file EXCEPT !.num_samples = startIndex + numNewSamples]
                      ELSE r.file,
             initialized |-> TRUE, ok |-> r.ok, applied |-> r.applied,
             pooled |-> r.pooled]

\* finalize: KeyError when the lidar pool was never created
finalizeFails(f) == ~f.created

\* a finalize that trims the pool to the number of samples
trimmedSizeBySamples(f) == attrsGet(f.num_samples)

\* finalize: the pool is resized to (lidarPointOffset, 4)
trimmedSize(f) == attrsGet(f.lidar_point_offset)

\* finalize: for tfStamped in staticTransforms.transforms:
\* staticGroup.create_dataset(key, data=matrix); a name the group already
\* holds makes create_dataset raise
RECURSIVE createStaticFrom(_, _, _)
createStaticFrom(f, transforms, index) ==
    IF index > Len(transforms) THEN [file |-> f, ok |-> TRUE]
    ELSE IF \E i \in 1..Len(f.static_transforms.entries) :
              f.static_transforms.entries[i].key = transforms[index].key
    THEN [file |-> f, ok |-> FALSE]
    ELSE createStaticFrom(
           [f EXCEPT !.static_transforms.entries =
              Append(@, [key |-> transforms[index].key,
                         matrix |-> transformToMatrix(transforms[index])])],
           transforms, index + 1)

createStatic(f, transforms) == createStaticFrom(f, transforms, 1)

\* finalize: if staticTransforms: create the group and one dataset per transform
persistStatic(f, source) ==
    IF source = <<>> THEN [file |-> f, ok |-> TRUE]
    ELSE createStatic([f EXCEPT !.static_transforms.exists = TRUE], source[1].transforms)

\* finalize(cameraMetadata, staticTransforms), once the pool exists: trim the
\* pool, persist the static transforms, close the file
finalize(f, source) ==
    LET trimmed == [f EXCEPT !.data = Resize(@, trimmedSize(f), 0)]
        r == persistStatic(trimmed, source)
    IN IF r.ok THEN [file |-> [r.file EXCEPT !.closed = TRUE], ok |-> TRUE]
       ELSE [file |-> r.file, ok |-> FALSE]

\* HDF5Writer.__init__: the object before finalize or destruction
newWriter == [finalize |-> "never", closes |-> 0, warnings |-> 0, destroyed |-> FALSE]

\* finalize ran to its last line, self.h5File.close()
finalizeCompleted(l) == [l EXCEPT !.finalize = "completed", !.closes = @ + 1]

\* finalize raised before closing the file
finalizeRaised(l) == [l EXCEPT !.finalize = "raised"]

\* a destructor that closes the file without asking whether it is still open
delAlways(f, l) ==
    [file |-> [f EXCEPT !.closed = TRUE],
     life |-> [l EXCEPT !.closes = @ + 1, !.warnings = @ + 1, !.destroyed = TRUE]]

\* HDF5Writer.__del__: if the file is still valid, warn and close it
del(f, l) ==
    IF ~f.closed
    THEN [file |-> [f EXCEPT !.closed = TRUE],
          life |-> [l EXCEPT !.closes = @ + 1, !.warnings = @ + 1, !.destroyed = TRUE]]
    ELSE [file |-> f, life |-> [l EXCEPT !.destroyed = TRUE]]

\* KittiHDF5Dataset.__init__: KeyError unless the file has a num_samples attribute
readerOpens(f) == f.num_samples # None

\* KittiHDF5Dataset.__getitem__ (index from 0): the lidar rows of the sample
getitemLidar(f, index) ==
    LET offset == f.offsets[index + 1]
        count == f.counts[index + 1]
        first == IF offset < Len(f.data) THEN offset + 1 ELSE Len(f.data) + 1
        last == IF offset + count < Len(f.data) THEN offset + count ELSE Len(f.data)
    IN SubSeq(f.data, first, last)

\* ------------------------------------------------------------ the inputs
\* StreamMessage(topic, msg, timestamp); id is the message's place in the log
Message(topic, t, id, n, ok, keys) ==
    [topic |-> topic, timestamp |-> t,
     msg |-> [id |-> id, n |-> n, ok |-> ok, shape |-> 1,
              transforms |-> [i \in 1..Len(keys) |->
                                [key |-> keys[i], translation |-> id]]]]

TfKeyLists == {<<"k1">>, <<"k1", "k2">>}

SensorMessages(id, ts) ==
    {Message(topic, t, id, 1 + (t % 2), TRUE, <<>>) : topic \in SensorTopics, t \in ts}
TfMessages(id, ts) ==
    {Message(TF_TOPIC, t, id, 0, TRUE, ks) : t \in ts, ks \in TfKeyLists}
OtherMessages(id, ts) == {Message(OTHER_TOPIC, t, id, 0, TRUE, <<>>) : t \in ts}

NoMessage == Message(OTHER_TOPIC, 0, 0, 0, TRUE, <<>>)

\* the log is chronological: no timestamp is earlier than the one before it
LogTimestamps == {t \in Timestamps : t >= streamMessage.timestamp}

\* processMessage's chunkEntry
chunkEntryOf(m) == [timestamp |-> m.timestamp, rosMsg |-> m.msg]

\* ---------------------------------------------------------------- history
\* every entry ever ingested for a key, none evicted
RECURSIVE recordTf(_, _, _)
recordTf(history, tfEntry, index) ==
    IF index > Len(tfEntry.rosMsg.transforms) THEN history
    ELSE LET tfStamped == tfEntry.rosMsg.transforms[index]
             entry == [timestamp |-> tfEntry.timestamp,
                       tfMatrix |-> transformToMatrix(tfStamped)]
             old == IF tfStamped.key \in DOMAIN history
                    THEN history[tfStamped.key] ELSE <<>>
             new == [k \in DOMAIN history \cup {tfStamped.key} |->
                        IF k = tfStamped.key THEN Append(old, entry) ELSE history[k]]
         IN recordTf(new, tfEntry, index + 1)

seenAfter(m) ==
    IF m.topic = LIDAR_TOPIC THEN Append(lidarSeen, m.msg.id) ELSE lidarSeen

idsOf(frames) == [i \in 1..Len(frames) |-> frames[i].rosMsg.id]

\* emitting: the number of flushes so far, this one included, that produced at
\* least one sample
flushRecord == [lidarFrames |-> chunkBuffer[LIDAR_TOPIC],
                cameraFrames |-> chunkBuffer[CAMERA_IMAGE_TOPIC],
                samples |-> flushedSamples,
                emitting |-> lastFlush.emitting
                               + (IF flushedSamples # <<>> THEN 1 ELSE 0)]
noFlush == [lidarFrames |-> <<>>, cameraFrames |-> <<>>, samples |-> <<>>, emitting |-> 0]

callRecord(samples, r, before) ==
    [samples |-> samples, ok |-> r.ok, applied |-> r.applied, pooled |-> r.pooled,
     startIndex |-> IF before.created THEN attrsGet(before.num_samples) ELSE 0,
     before |-> before.transforms]
noCall == [samples |-> <<>>, ok |-> TRUE, applied |-> 0, pooled |-> 0, startIndex |-> 0,
           before |-> <<>>]

\* ------------------------------------------------ mcap_to_ml.MCAPHandler
CAMERA_INTRINSIC_PARAMETERS_TOPIC == "camera_info"
HandlerTopics == {LIDAR_TOPIC, CAMERA_IMAGE_TOPIC, TF_TOPIC}

\* MCAPHandler.__init__(mcapFilePath, maxChunkGap); a cache slot is <<>> for
\* None; read and chunks record the messages read from the log and the chunks
\* yielded so far, msg is the message generateChunk is working on
newHandler(maxChunkGap) ==
    [maxChunkGap |-> maxChunkGap,
     staticCache |-> [t \in {TF_STATIC_TOPIC, CAMERA_INTRINSIC_PARAMETERS_TOPIC} |-> <<>>],
     chunkBuffer |-> [t \in HandlerTopics |-> <<>>],
     lastTimestamps |-> [t \in SensorTopics |-> None],
     pc |-> "read", msg |-> NoMessage, read |-> <<>>, chunks |-> <<>>]

\* the values of maxChunkGap handlers are constructed with
HandlerGaps == {0, MAX_CHUNK_GAP}

\* MCAPHandler.checkFlushConstraint
MCAPHandler_checkFlushConstraint(h, sensorTopicName, currentTimestamp) ==
    LET lastTimestamp == h.lastTimestamps[sensorTopicName]
    IN IF lastTimestamp = None THEN FALSE
       ELSE (currentTimestamp - lastTimestamp) > h.maxChunkGap

\* MCAPHandler.flushChunk: the chunk returned, and the handler it leaves
flushChunk(h) ==
    [chunk |-> h.chunkBuffer,
     handler |-> [h EXCEPT !.chunkBuffer = [t \in HandlerTopics |-> <<>>],
                           !.lastTimestamps = [t \in SensorTopics |-> None]]]

\* generateChunk, one message taken from the log: the static cache keeps the
\* first message of each of its topics
takeMessage(h, m) ==
    LET filled == IF m.topic \in DOMAIN h.staticCache /\ h.staticCache[m.topic] = <<>>
                  THEN [h.staticCache EXCEPT ![m.topic] = <<chunkEntryOf(m)>>]
                  ELSE h.staticCache
    IN [h EXCEPT !.staticCache = filled, !.msg = m, !.read = Append(@, m)]

\* generateChunk: the append that follows the topic test (and, for a sensor
\* topic, the gap test)
appendEntry(h, m) ==
    [h EXCEPT !.chunkBuffer[m.topic] = Append(@, chunkEntryOf(m)),
              !.lastTimestamps = IF m.topic \in SensorTopics
                                 THEN [@ EXCEPT ![m.topic] = m.timestamp] ELSE @]

\* ------------------------------------------------------------------- Init
InitOfHandler(pkg, cfgs, gaps) ==
    /\ package = pkg
    /\ \E cfg \in cfgs : syncThreshold = cfg[1] /\ maxGap = cfg[2]
    /\ chunkBuffer = emptyBuffers
    /\ lastTimestamps = noTimestamps
    /\ tfCache = <<>>
    /\ pc = "read"
    /\ streamMessage = NoMessage
    /\ pending = <<>>
    /\ sampleBatch = <<>>
    /\ chunkId = 0
    /\ flushEventTriggered = FALSE
    /\ totalSamples = 0
    /\ h5File = newFile
    /\ initialized = FALSE
    /\ life = newWriter
    /\ staticTransforms = <<>>
    /\ staticSeen = {}
    /\ \E maxChunkGap \in gaps : handler = newHandler(maxChunkGap)
    /\ converterCall = noConversion
    /\ nMsgs = 0
    /\ tfHistory = <<>>
    /\ emitted = <<>>
    /\ lidarSeen = <<>>
    /\ resolved = <<>>
    /\ flushCount = 0
    /\ lastFlush = noFlush
    /\ written = <<>>
    /\ lastCall = noCall
    /\ nGiven = 0

\* parser = MCAPHandler(MCAP_FILE_PATH, MAX_CHUNK_GAP)
InitOf(pkg, cfgs) == InitOfHandler(pkg, cfgs, {MAX_CHUNK_GAP})

\* mcap2hdf5.synchronizer.SensorDataSynchronizer(syncThreshold, maxGap)
InitWith(cfgs) == InitOf("mcap2hdf5", cfgs)

\* main(): SensorSynchronizer(SENSOR_SYNC_THRESHOLD, MAX_CHUNK_GAP)
Init == InitWith({<<SENSOR_SYNC_THRESHOLD, MAX_CHUNK_GAP>>})

\* a driver that swallows an exception inside the loop and reads on
exceptionIgnored == "read"

\* main(): except Exception as e: logger.error(...); control falls to the last
\* log line and main returns
exceptionCaught == "failed"

\* ------------------------------------------- processMessage, per topic
\* transform topic: updateTFCache and return
ProcessTf(m) ==
    /\ pc = "read"
    /\ m.topic = TF_TOPIC
    /\ tfCache' = updateTFCache(tfCache, chunkEntryOf(m))
    /\ tfHistory' = recordTf(tfHistory, chunkEntryOf(m), 1)
    /\ streamMessage' = m
    /\ nMsgs' = nMsgs + 1
    /\ flushEventTriggered' = FALSE
    /\ UNCHANGED <<converterCall, readerVars, package, syncThreshold, maxGap, chunkBuffer, lastTimestamps, pc, pending,
                   sampleBatch, chunkId, totalSamples, writerVars, emitted, lidarSeen, resolved,
                   flushCount, lastFlush, written, lastCall, nGiven>>

\* any other topic: nothing
ProcessOther(m) ==
    /\ pc = "read"
    /\ m.topic \notin SensorTopics \cup {TF_TOPIC}
    /\ streamMessage' = m
    /\ nMsgs' = nMsgs + 1
    /\ flushEventTriggered' = FALSE
    /\ UNCHANGED <<syncVars, pc, pending, sampleBatch, chunkId, totalSamples,
                   writerVars, histVars>>

\* lidar or camera topic, no gap: append and remember the timestamp
ProcessSensorAppend(m) ==
    /\ pc = "read"
    /\ m.topic \in SensorTopics
    /\ ~checkFlushConstraint(m.topic, m.timestamp)
    /\ chunkBuffer' = [chunkBuffer EXCEPT ![m.topic] = Append(@, chunkEntryOf(m))]
    /\ lastTimestamps' = [lastTimestamps EXCEPT ![m.topic] = m.timestamp]
    /\ streamMessage' = m
    /\ nMsgs' = nMsgs + 1
    /\ flushEventTriggered' = FALSE
    /\ lidarSeen' = seenAfter(m)
    /\ UNCHANGED <<converterCall, readerVars, package, syncThreshold, maxGap, tfCache, pc, pending, sampleBatch, chunkId,
                   totalSamples, writerVars, tfHistory, emitted, resolved, flushCount,
                   lastFlush, written, lastCall, nGiven>>

\* lidar or camera topic after a gap: flushSamples runs up to its first yield
ProcessSensorFlush(m) ==
    /\ pc = "read"
    /\ m.topic \in SensorTopics
    /\ checkFlushConstraint(m.topic, m.timestamp)
    /\ pending' = flushedSamples
    /\ chunkBuffer' = flushedBuffers
    /\ lastTimestamps' = flushedTimestamps
    /\ tfCache' = flushedCache
    /\ lastFlush' = flushRecord
    /\ resolved' = resolved \o idsOf(chunkBuffer[LIDAR_TOPIC])
    /\ flushCount' = flushCount + 1
    /\ streamMessage' = m
    /\ nMsgs' = nMsgs + 1
    /\ flushEventTriggered' = FALSE
    /\ pc' = "yield"
    /\ lidarSeen' = seenAfter(m)
    /\ UNCHANGED <<converterCall, readerVars, package, syncThreshold, maxGap, sampleBatch, chunkId, totalSamples,
                   writerVars, tfHistory, emitted, written, lastCall, nGiven>>

\* the driver's loop body for one yielded sample, batch not yet full
YieldSample ==
    /\ pc = "yield" /\ pending # <<>>
    /\ LET sample == [Head(pending) EXCEPT !.chunkId = chunkId]
           batch == Append(sampleBatch, sample)
       IN /\ Len(batch) < HDF5_WRITE_BATCH_SIZE
          /\ sampleBatch' = batch
          /\ emitted' = Append(emitted, sample)
    /\ pending' = Tail(pending)
    /\ flushEventTriggered' = TRUE
    /\ UNCHANGED <<converterCall, readerVars, syncVars, pc, streamMessage, chunkId, totalSamples, nMsgs,
                   writerVars, tfHistory, lidarSeen, resolved, flushCount, lastFlush, written,
                   lastCall, nGiven>>

\* the driver's loop body for the yielded sample that fills the batch
YieldAndWrite ==
    /\ pc = "yield" /\ pending # <<>>
    /\ LET sample == [Head(pending) EXCEPT !.chunkId = chunkId]
           batch == Append(sampleBatch, sample)
           r == writeBatch(h5File, initialized, batch)
       IN /\ Len(batch) >= HDF5_WRITE_BATCH_SIZE
          /\ emitted' = Append(emitted, sample)
          /\ h5File' = r.file
          /\ initialized' = r.initialized
          /\ lastCall' = callRecord(batch, r, h5File)
          /\ IF r.ok
             THEN /\ totalSamples' = totalSamples + Len(batch)
                  /\ sampleBatch' = <<>>
                  /\ written' = written \o batch
                  /\ pending' = Tail(pending)
                  /\ pc' = "yield"
             ELSE /\ pc' = exceptionCaught
                  /\ UNCHANGED <<totalSamples, sampleBatch, written, pending>>
    /\ flushEventTriggered' = TRUE
    /\ UNCHANGED <<converterCall, readerVars, syncVars, streamMessage, chunkId, nMsgs, life, tfHistory, lidarSeen,
                   resolved, flushCount, lastFlush, nGiven>>

\* a driver that advances the chunk id after every flush a message triggers
chunkIdAfterAnyFlush(triggered) == chunkId + 1

\* main(): if flushEventTriggered: chunkId += 1
chunkIdAfter(triggered) == IF triggered THEN chunkId + 1 ELSE chunkId

\* the flush is exhausted: processMessage appends the message, the driver
\* counts the chunk
ResumeProcess ==
    /\ pc = "yield" /\ pending = <<>>
    /\ chunkBuffer' = [chunkBuffer EXCEPT
                         ![streamMessage.topic] = Append(@, chunkEntryOf(streamMessage))]
    /\ lastTimestamps' = [lastTimestamps EXCEPT
                            ![streamMessage.topic] = streamMessage.timestamp]
    /\ chunkId' = chunkIdAfter(flushEventTriggered)
    /\ pc' = "read"
    /\ UNCHANGED <<converterCall, readerVars, package, syncThreshold, maxGap, tfCache, streamMessage, pending, sampleBatch,
                   flushEventTriggered, totalSamples, nMsgs, writerVars, histVars>>

\* the stream ends: the residual flushSamples up to its first yield
EndOfStream ==
    /\ pc = "read"
    /\ pending' = flushedSamples
    /\ chunkBuffer' = flushedBuffers
    /\ lastTimestamps' = flushedTimestamps
    /\ tfCache' = flushedCache
    /\ lastFlush' = flushRecord
    /\ resolved' = resolved \o idsOf(chunkBuffer[LIDAR_TOPIC])
    /\ flushCount' = flushCount + 1
    /\ pc' = "drain"
    /\ UNCHANGED <<converterCall, readerVars, package, syncThreshold, maxGap, streamMessage, sampleBatch, chunkId,
                   flushEventTriggered, totalSamples, nMsgs, writerVars, tfHistory,
                   emitted, lidarSeen, written, lastCall, nGiven>>

\* the residual loop: every yielded sample joins the batch
DrainResidual ==
    /\ pc = "drain"
    /\ LET tagged == [i \in 1..Len(pending) |-> [pending[i] EXCEPT !.chunkId = chunkId]]
       IN /\ sampleBatch' = sampleBatch \o tagged
          /\ emitted' = emitted \o tagged
    /\ pending' = <<>>
    /\ pc' = "residual"
    /\ UNCHANGED <<converterCall, readerVars, syncVars, streamMessage, chunkId, flushEventTriggered, totalSamples,
                   nMsgs, writerVars, tfHistory, lidarSeen, resolved, flushCount, lastFlush,
                   written, lastCall, nGiven>>

\* if sampleBatch: writer.writeBatch(sampleBatch)
ResidualWrite ==
    /\ pc = "residual"
    /\ IF sampleBatch # <<>>
       THEN LET r == writeBatch(h5File, initialized, sampleBatch)
            IN /\ h5File' = r.file
               /\ initialized' = r.initialized
               /\ lastCall' = callRecord(sampleBatch, r, h5File)
               /\ IF r.ok
                  THEN /\ totalSamples' = totalSamples + Len(sampleBatch)
                       /\ written' = written \o sampleBatch
                       /\ pc' = "finalize"
                  ELSE /\ pc' = exceptionCaught
                       /\ UNCHANGED <<totalSamples, written>>
       ELSE /\ pc' = "finalize"
            /\ UNCHANGED <<h5File, initialized, lastCall, totalSamples, written>>
    /\ UNCHANGED <<converterCall, readerVars, syncVars, streamMessage, pending, sampleBatch, chunkId,
                   flushEventTriggered, nMsgs, life, tfHistory, emitted, lidarSeen, resolved,
                   flushCount, lastFlush, nGiven>>

\* writer.finalize(...)
Finalize ==
    /\ pc = "finalize"
    /\ IF finalizeFails(h5File)
       THEN pc' = exceptionCaught /\ life' = finalizeRaised(life) /\ UNCHANGED h5File
       ELSE LET r == finalize(h5File, staticTransforms)
            IN /\ h5File' = r.file
               /\ pc' = IF r.ok THEN "done" ELSE exceptionCaught
               /\ life' = IF r.ok THEN finalizeCompleted(life) ELSE finalizeRaised(life)
    /\ UNCHANGED <<converterCall, readerVars, syncVars, streamMessage, pending, sampleBatch, chunkId,
                   flushEventTriggered, totalSamples, nMsgs, initialized, histVars>>

\* main() returns, after the last log line or after the except clause: the
\* writer goes out of scope and its destructor runs
Exit ==
    /\ pc \in {"done", "failed"}
    /\ ~life.destroyed
    /\ h5File' = del(h5File, life).file
    /\ life' = del(h5File, life).life
    /\ UNCHANGED <<converterCall, readerVars, syncVars, driverVars, initialized, histVars>>

\* the driver reads the next message of the log
ReadSensorAppend ==
    /\ nMsgs < MaxMsgs
    /\ \E m \in SensorMessages(nMsgs + 1, LogTimestamps) : ProcessSensorAppend(m)
ReadSensorFlush ==
    /\ nMsgs < MaxMsgs
    /\ \E m \in SensorMessages(nMsgs + 1, LogTimestamps) : ProcessSensorFlush(m)
ReadTf ==
    /\ nMsgs < MaxMsgs
    /\ \E m \in TfMessages(nMsgs + 1, LogTimestamps) : ProcessTf(m)
ReadOther ==
    /\ nMsgs < MaxMsgs
    /\ \E m \in OtherMessages(nMsgs + 1, {streamMessage.timestamp}) : ProcessOther(m)
    /\ UNCHANGED <<converterCall, readerVars>>

Next ==
    \/ ReadSensorAppend
    \/ ReadSensorFlush
    \/ ReadTf
    \/ ReadOther
    \/ YieldSample
    \/ YieldAndWrite
    \/ ResumeProcess
    \/ EndOfStream
    \/ DrainResidual
    \/ ResidualWrite
    \/ Finalize
    \/ Exit

Spec == Init /\ [][Next]_vars

\* ------------------------------------------- the synchronizer used alone
\* messages in any timestamp order; the caller iterates every generator to its
\* end and may call flushSamples between two messages
SyncSensorAppend ==
    /\ nMsgs < MaxSyncMsgs
    /\ \E m \in SensorMessages(nMsgs + 1, Timestamps) : ProcessSensorAppend(m)
SyncSensorFlush ==
    /\ nMsgs < MaxSyncMsgs
    /\ \E m \in SensorMessages(nMsgs + 1, Timestamps) : ProcessSensorFlush(m)
SyncTf ==
    /\ nMsgs < MaxSyncMsgs
    /\ \E m \in TfMessages(nMsgs + 1, Timestamps) : ProcessTf(m)
SyncOther ==
    /\ nMsgs < MaxSyncMsgs
    /\ \E m \in OtherMessages(nMsgs + 1, {0}) : ProcessOther(m)
    /\ UNCHANGED <<converterCall, readerVars>>

\* the caller takes the samples a gap-triggered flush yields
SyncTake ==
    /\ pc = "yield" /\ pending # <<>>
    /\ pending' = <<>>
    /\ UNCHANGED <<converterCall, readerVars, syncVars, pc, streamMessage, sampleBatch, chunkId,
                   flushEventTriggered, totalSamples, nMsgs, writerVars, histVars>>

\* the caller takes the samples of a flushSamples call it made itself
SyncCollect ==
    /\ pc = "drain"
    /\ pending' = <<>>
    /\ pc' = "read"
    /\ UNCHANGED <<converterCall, readerVars, syncVars, streamMessage, sampleBatch, chunkId,
                   flushEventTriggered, totalSamples, nMsgs, writerVars, histVars>>

\* the caller calls flushSamples between two messages (with both buffers empty
\* the call changes nothing)
SyncFlush ==
    /\ chunkBuffer # emptyBuffers
    /\ EndOfStream

NextSync ==
    \/ SyncSensorAppend
    \/ SyncSensorFlush
    \/ SyncTf
    \/ SyncOther
    \/ SyncTake
    \/ ResumeProcess
    \/ SyncFlush
    \/ SyncCollect

SpecSync == InitWith(Configs) /\ [][NextSync]_vars

\* pipeline.synchronizer.SensorSynchronizer(syncThreshold, maxGap) used alone
SpecPipelineSync == InitOf("pipeline", Configs) /\ [][NextSync]_vars

\* ------------------------------------------------- the writer used alone
KeySets == {{}, {"k1"}, {"k1", "k2"}}

\* a fused sample as the writer reads it: lidar and camera entries, the
\* transforms mapping, the timestamp and the chunk id
Sample(id, n, ok, keys) ==
    [lidar |-> [timestamp |-> id, rosMsg |-> Message(LIDAR_TOPIC, id, id, n, ok, <<>>).msg],
     camera |-> [timestamp |-> id, rosMsg |-> Message(CAMERA_IMAGE_TOPIC, id, id, 0, TRUE, <<>>).msg],
     transforms |-> [k \in keys |-> id * PoseScale],
     timestamp |-> id,
     chunkId |-> 0]

Samples(id) ==
    {Sample(id, n, TRUE, ks) : n \in 0..MaxPoints, ks \in KeySets}
      \cup {Sample(id, 1, FALSE, {"k1"}),
            [Sample(id, 1, TRUE, {"k1"}) EXCEPT !.camera.rosMsg.shape = 2]}

RECURSIVE Batches(_, _)
Batches(firstId, len) ==
    IF len = 0 THEN {<<>>}
    ELSE {<<s>> \o rest : s \in Samples(firstId), rest \in Batches(firstId + 1, len - 1)}

WriterWrite ==
    /\ ~h5File.closed
    /\ ~life.destroyed
    /\ \E len \in 0..MaxBatchLen :
         /\ nGiven + len <= MaxSamples
         /\ \E samples \in Batches(nGiven + 1, len) :
              LET r == writeBatch(h5File, initialized, samples)
              IN /\ h5File' = r.file
                 /\ initialized' = r.initialized
                 /\ lastCall' = callRecord(samples, r, h5File)
                 /\ written' = IF r.ok THEN written \o samples ELSE written
                 /\ nGiven' = nGiven + len
    /\ UNCHANGED <<converterCall, readerVars, syncVars, driverVars, life, tfHistory, emitted, lidarSeen, resolved,
                   flushCount, lastFlush>>

WriterFinalize ==
    /\ ~h5File.closed
    /\ ~life.destroyed
    /\ ~finalizeFails(h5File)
    /\ h5File' = finalize(h5File, <<>>).file
    /\ life' = finalizeCompleted(life)
    /\ UNCHANGED <<converterCall, readerVars, syncVars, driverVars, initialized, histVars>>

\* finalize called before any sample was written: it raises, the file stays open
WriterFinalizeRaises ==
    /\ ~h5File.closed
    /\ ~life.destroyed
    /\ finalizeFails(h5File)
    /\ life' = finalizeRaised(life)
    /\ UNCHANGED <<converterCall, readerVars, syncVars, driverVars, h5File, initialized, histVars>>

\* the writer is garbage collected
WriterDel ==
    /\ ~life.destroyed
    /\ h5File' = del(h5File, life).file
    /\ life' = del(h5File, life).life
    /\ UNCHANGED <<converterCall, readerVars, syncVars, driverVars, initialized, histVars>>

NextWriter ==
    \/ WriterWrite
    \/ WriterFinalize
    \/ WriterFinalizeRaises
    \/ WriterDel

SpecWriter == Init /\ [][NextWriter]_vars

\* ------------------------------- the synchronizer on the documented example
\* timestamps in hundredths of a second: lidar 0.0 and 0.2, camera 0.04 and
\* 0.25, and a later one that is a gap away from all of them
ExampleTimestamps == {0, 4, 20, 25, 60}
\* syncThreshold = 0.05
ExampleThreshold == 5
\* a maxGap under which all entries of the example stay in one window
ExampleGap == 5 * ExampleThreshold
MaxExampleMsgs == 4

ExampleAppend ==
    /\ nMsgs < MaxExampleMsgs
    /\ \E m \in SensorMessages(nMsgs + 1, ExampleTimestamps) : ProcessSensorAppend(m)
ExampleGapFlush ==
    /\ nMsgs < MaxExampleMsgs
    /\ \E m \in SensorMessages(nMsgs + 1, ExampleTimestamps) : ProcessSensorFlush(m)

NextExample ==
    \/ ExampleAppend
    \/ ExampleGapFlush
    \/ SyncTake
    \/ ResumeProcess
    \/ SyncFlush
    \/ SyncCollect

SpecExample == InitWith({<<ExampleThreshold, ExampleGap>>}) /\ [][NextExample]_vars

\* ------------------------------- a driver run over a log with /tf_static
\* sensor messages in log order and static-transform messages, each carrying
\* one or two frame pairs
StaticKeyLists == {<<"s1">>, <<"s2">>, <<"s1", "s2">>, <<"s1", "s1">>}
StaticMessages(id, ts) ==
    {Message(TF_STATIC_TOPIC, t, id, 0, TRUE, ks) : t \in ts, ks \in StaticKeyLists}
MaxStaticRunMsgs == 6

\* streamMessages: the first /tf_static message is kept, later ones are not
captureStatic(source, m) == IF source = <<>> THEN <<m.msg>> ELSE source

ReadTfStatic ==
    /\ nMsgs < MaxStaticRunMsgs
    /\ \E m \in StaticMessages(nMsgs + 1, {streamMessage.timestamp}) :
         /\ ProcessOther(m)
         /\ staticTransforms' = captureStatic(staticTransforms, m)
         /\ staticSeen' = staticSeen \cup {m.msg.transforms[i].key : i \in 1..Len(m.msg.transforms)}
    /\ UNCHANGED <<converterCall, handler>>
StaticSensorAppend ==
    /\ nMsgs < MaxStaticRunMsgs
    /\ \E m \in SensorMessages(nMsgs + 1, LogTimestamps) : ProcessSensorAppend(m)
StaticSensorFlush ==
    /\ nMsgs < MaxStaticRunMsgs
    /\ \E m \in SensorMessages(nMsgs + 1, LogTimestamps) : ProcessSensorFlush(m)

NextStatic ==
    \/ StaticSensorAppend
    \/ StaticSensorFlush
    \/ ReadTfStatic
    \/ YieldSample
    \/ YieldAndWrite
    \/ ResumeProcess
    \/ EndOfStream
    \/ DrainResidual
    \/ ResidualWrite
    \/ Finalize
    \/ Exit

SpecStatic == Init /\ [][NextStatic]_vars

\* ----------------------------- a driver run over a log that makes steps fail
\* sensor messages in log order, some of them a point cloud without the
\* requested fields or an image of another shape; reading the log may raise
FaultyMessages(id, ts) ==
    SensorMessages(id, ts)
      \cup {Message(LIDAR_TOPIC, t, id, 1 + (t % 2), FALSE, <<>>) : t \in ts}
      \cup {[Message(CAMERA_IMAGE_TOPIC, t, id, 1 + (t % 2), TRUE, <<>>)
               EXCEPT !.msg.shape = 2] : t \in ts}
MaxFaultyRunMsgs == 6

FaultySensorAppend ==
    /\ nMsgs < MaxFaultyRunMsgs
    /\ \E m \in FaultyMessages(nMsgs + 1, LogTimestamps) : ProcessSensorAppend(m)
FaultySensorFlush ==
    /\ nMsgs < MaxFaultyRunMsgs
    /\ \E m \in FaultyMessages(nMsgs + 1, LogTimestamps) : ProcessSensorFlush(m)

\* streamMessages: opening or reading the log raises; the reader logs and
\* re-raises, the driver's except clause catches
ReadRaises ==
    /\ pc = "read"
    /\ pc' = exceptionCaught
    /\ UNCHANGED <<syncVars, streamMessage, pending, sampleBatch, chunkId,
                   flushEventTriggered, totalSamples, nMsgs, writerVars, converterCall, readerVars, histVars>>

NextFaulty ==
    \/ FaultySensorAppend
    \/ FaultySensorFlush
    \/ ReadRaises
    \/ YieldSample
    \/ YieldAndWrite
    \/ ResumeProcess
    \/ EndOfStream
    \/ DrainResidual
    \/ ResidualWrite
    \/ Finalize
    \/ Exit

SpecFaulty == Init /\ [][NextFaulty]_vars

\* ------------------------------------------ lidarToNumpy called directly
\* point-cloud messages of up to MaxRows rows of up to MaxPointStep bytes, with
\* up to two field descriptors of 8-bit, 16-bit and float32 types at any offset
\* of the row, and requests of up to two field names
MaxPointStep == 4
MaxRows == 2
FieldNameSet == {"x", "y", "intensity"}
Datatypes == {1, 2, 4, 7}
PointFields ==
    [name : FieldNameSet, offset : 0..(MaxPointStep - 1), datatype : Datatypes]
FieldLists ==
    {<<>>} \cup {<<f>> : f \in PointFields}
      \cup {fs \in PointFields \X PointFields : fs[1].name # fs[2].name}
Requests ==
    {<<>>} \cup {<<a>> : a \in FieldNameSet} \cup {<<a, b>> : a, b \in FieldNameSet}
           \cup {DEFAULT_LIDAR_MESSAGE_FIELDS}

\* a payload whose bytes all differ, some of them above 127
payload(len) == [k \in 1..len |-> (130 + 67 * k) % 256]

PointClouds ==
    {[fields |-> fs, point_step |-> step, data |-> payload(n * step)] :
       fs \in FieldLists, step \in 1..MaxPointStep, n \in 0..MaxRows}

CallLidarToNumpy ==
    /\ converterCall = noConversion
    /\ \E lidarMsg \in PointClouds, fieldNames \in Requests :
         converterCall' = [fn |-> "lidarToNumpy", lidarMsg |-> lidarMsg,
                           fieldNames |-> fieldNames,
                           result |-> lidarToNumpyBytes(lidarMsg, fieldNames)]
    /\ UNCHANGED <<syncVars, driverVars, writerVars, readerVars, histVars>>

NextLidarToNumpy == CallLidarToNumpy

SpecLidarToNumpy == Init /\ [][NextLidarToNumpy]_vars

\* --------------------------------------- interpolateMatrix called directly
\* rigid transforms whose rotation is one of the twelve rotations with a unit
\* quaternion of integer or half-integer components and whose translation is
\* 0..MaxTranslation, blended at every alpha = num/den in [0, 1] with den up to
\* AlphaDen
MaxTranslation == 2
AlphaDen == 3
Rotations == {fromQuatAsMatrix(quat) : quat \in UnitQuats}
RigidTransforms ==
    [translation : 0..MaxTranslation, rotation : Rotations, bottom : {<<0, 0, 0, 1>>}]

CallInterpolateMatrix ==
    /\ converterCall = noConversion
    /\ \E matrix1 \in RigidTransforms, matrix2 \in RigidTransforms,
          den \in 1..AlphaDen, sign1 \in {1, -1}, sign2 \in {1, -1} :
         \E num \in 0..den :
           converterCall' =
             [fn |-> "interpolateMatrix", matrix1 |-> matrix1, matrix2 |-> matrix2,
              num |-> num, den |-> den,
              flipped |-> dot(fromMatrixAsQuat(matrix1.rotation, sign1),
                              fromMatrixAsQuat(matrix2.rotation, sign2)) < 0,
              result |-> interpolateRigid(matrix1, matrix2, num, den, sign1, sign2)]
    /\ UNCHANGED <<syncVars, driverVars, writerVars, readerVars, histVars>>

CallInterpolateMatrixOmittingAlpha ==
    /\ converterCall = noConversion
    /\ \E matrix1 \in RigidTransforms, matrix2 \in RigidTransforms,
          sign1 \in {1, -1}, sign2 \in {1, -1} :
         converterCall' =
           [fn |-> "interpolateMatrix(matrix1, matrix2)",
            matrix1 |-> matrix1, matrix2 |-> matrix2, sign1 |-> sign1, sign2 |-> sign2,
            result |-> interpolateMatrixOmittingAlpha(matrix1, matrix2, sign1, sign2)]
    /\ UNCHANGED <<syncVars, driverVars, writerVars, readerVars, histVars>>

NextInterpolateMatrix ==
    \/ CallInterpolateMatrix
    \/ CallInterpolateMatrixOmittingAlpha

SpecInterpolateMatrix == Init /\ [][NextInterpolateMatrix]_vars

\* ------------------------------------ interpolateTransforms called directly
\* a query on a synchronizer whose cache holds, for one key, any sequence of
\* up to MaxCacheLen entries: what ingest leaves behind when the capacity is
\* at least MaxCacheLen, the timestamps in any order and with repetitions
MaxCacheLen == 4
TfEntries == [timestamp : Timestamps, tfMatrix : {0, PoseScale}]
CacheLists == UNION {[1..n -> TfEntries] : n \in 0..MaxCacheLen}

CallInterpolateTransforms ==
    /\ converterCall = noConversion
    /\ \E tfList \in CacheLists, targetTimestamp \in Timestamps :
         LET cache == IF tfList = <<>> THEN <<>> ELSE [k \in {"k1"} |-> tfList]
         IN converterCall' =
              [fn |-> "interpolateTransforms", tfCache |-> cache,
               targetTimestamp |-> targetTimestamp,
               result |-> interpolateTransforms(cache, targetTimestamp)]
    /\ UNCHANGED <<syncVars, driverVars, writerVars, readerVars, histVars>>

NextInterpolateTransforms == CallInterpolateTransforms

SpecInterpolateTransforms == Init /\ [][NextInterpolateTransforms]_vars

\* --------------------------------- iterating the legacy MCAPHandler
\* for index, chunk in enumerate(parser): the log holds up to MaxHandlerMsgs
\* messages on the sensor, transform, static and other topics, their
\* timestamps in any order
MaxHandlerMsgs == 4
HandlerMessages(id) ==
    SensorMessages(id, Timestamps)
      \cup {Message(TF_TOPIC, t, id, 0, TRUE, <<"k1">>) : t \in Timestamps}
      \cup {Message(topic, 0, id, 0, TRUE, <<>>) :
              topic \in {TF_STATIC_TOPIC, CAMERA_INTRINSIC_PARAMETERS_TOPIC, OTHER_TOPIC}}

\* a transform message: appended to the transform buffer
HandlerReadTf ==
    /\ handler.pc = "read" /\ Len(handler.read) < MaxHandlerMsgs
    /\ \E m \in HandlerMessages(Len(handler.read) + 1) :
         /\ m.topic = TF_TOPIC
         /\ handler' = appendEntry(takeMessage(handler, m), m)
    /\ UNCHANGED <<syncVars, driverVars, writerVars, converterCall, staticTransforms,
                   staticSeen, histVars>>

\* a lidar or camera message within the gap: appended to its buffer
HandlerReadSensor ==
    /\ handler.pc = "read" /\ Len(handler.read) < MaxHandlerMsgs
    /\ \E m \in HandlerMessages(Len(handler.read) + 1) :
         /\ m.topic \in SensorTopics
         /\ ~MCAPHandler_checkFlushConstraint(handler, m.topic, m.timestamp)
         /\ handler' = appendEntry(takeMessage(handler, m), m)
    /\ UNCHANGED <<syncVars, driverVars, writerVars, converterCall, staticTransforms,
                   staticSeen, histVars>>

\* a lidar or camera message after a gap: yield self.flushChunk()
HandlerYield ==
    /\ handler.pc = "read" /\ Len(handler.read) < MaxHandlerMsgs
    /\ \E m \in HandlerMessages(Len(handler.read) + 1) :
         /\ m.topic \in SensorTopics
         /\ MCAPHandler_checkFlushConstraint(handler, m.topic, m.timestamp)
         /\ LET flushed == flushChunk(takeMessage(handler, m))
            IN handler' = [flushed.handler EXCEPT !.chunks = Append(@, flushed.chunk),
                                                  !.pc = "yielded"]
    /\ UNCHANGED <<syncVars, driverVars, writerVars, converterCall, staticTransforms,
                   staticSeen, histVars>>

\* the loop asks for the next chunk: the generator resumes after the yield and
\* appends the message that triggered the flush
HandlerResume ==
    /\ handler.pc = "yielded"
    /\ handler' = [appendEntry(handler, handler.msg) EXCEPT !.pc = "read"]
    /\ UNCHANGED <<syncVars, driverVars, writerVars, converterCall, staticTransforms,
                   staticSeen, histVars>>

\* a message on any other topic: kept in the static cache if it is the first
\* of its topic there, else: continue
HandlerReadOther ==
    /\ handler.pc = "read" /\ Len(handler.read) < MaxHandlerMsgs
    /\ \E m \in HandlerMessages(Len(handler.read) + 1) :
         /\ m.topic \notin HandlerTopics
         /\ handler' = takeMessage(handler, m)
    /\ UNCHANGED <<syncVars, driverVars, writerVars, converterCall, staticTransforms,
                   staticSeen, histVars>>

\* the log ends: the for loop of generateChunk is exhausted and the generator
\* returns
HandlerEnd ==
    /\ handler.pc = "read"
    /\ handler' = [handler EXCEPT !.pc = "done"]
    /\ UNCHANGED <<syncVars, driverVars, writerVars, converterCall, staticTransforms,
                   staticSeen, histVars>>

NextHandler ==
    \/ HandlerReadTf
    \/ HandlerReadSensor
    \/ HandlerYield
    \/ HandlerResume
    \/ HandlerReadOther
    \/ HandlerEnd

\* MCAPHandler(mcapFilePath, maxChunkGap) for each maxChunkGap of HandlerGaps
SpecHandler ==
    InitOfHandler("mcap2hdf5", {<<SENSOR_SYNC_THRESHOLD, MAX_CHUNK_GAP>>}, HandlerGaps)
      /\ [][NextHandler]_vars

\* ================================================================ claims
MaxOf(S) == CHOOSE x \in S : \A y \in S : y <= x
MinOf(S) == CHOOSE x \in S : \A y \in S : x <= y
Range(s) == {s[i] : i \in 1..Len(s)}

\* C1: the point pool is densely packed: the first stored sample starts at
\* offset 0, consecutive rows satisfy offset_i + count_i = offset_{i+1}, and
\* the pool cursor is the last offset plus the last count.
C1_DenselyPacked ==
    LET n == attrsGet(h5File.num_samples)
        off == h5File.offsets
        cnt == h5File.counts
    IN h5File.created =>
         /\ n >= 1 => off[1] = 0
         /\ \A i \in 1..(n - 1) : off[i] + cnt[i] = off[i + 1]
         /\ n >= 1 => attrsGet(h5File.lidar_point_offset) = off[n] + cnt[n]

\* C2: reading row i back returns the points decoded from the lidar message of
\* the sample stored at row i, after any later write, pool growth or trim.
C2_RowsHoldTheirPoints ==
    /\ attrsGet(h5File.num_samples) = Len(written)
    /\ \A i \in 1..Len(written) :
         getitemLidar(h5File, i - 1) = lidarToNumpy(written[i].lidar.rosMsg)

\* C2 witness: a finalized store of three samples whose points outgrew the
\* initial pool, written after a batch that failed partway
C2_Witness ==
    /\ h5File.closed
    /\ Len(written) >= 2
    /\ nGiven > Len(written)
    /\ SumSeq(h5File.counts) > INITIAL_LIDAR_CAPACITY
    /\ h5File.counts[Len(written)] > 0

BracketPoses(entries, targetTimestamp) ==
    LET all == Range(entries)
        befores == {e \in all : e.timestamp <= targetTimestamp}
        afters == {e \in all : e.timestamp >= targetTimestamp}
        tb == MaxOf({e.timestamp : e \in befores})
        ta == MinOf({e.timestamp : e \in afters})
        B == {e \in befores : e.timestamp = tb}
        A == {e \in afters : e.timestamp = ta}
    IN IF befores # {} /\ afters # {}
       THEN IF tb = ta THEN {e.tfMatrix : e \in B}
            ELSE {(b.tfMatrix * (ta - targetTimestamp)
                     + a.tfMatrix * (targetTimestamp - tb)) \div (ta - tb) :
                  b \in B, a \in A}
       ELSE IF befores # {} THEN {e.tfMatrix : e \in B}
       ELSE {e.tfMatrix : e \in A}

\* a flush has just run and none of its samples has been taken
FreshFlush == pc \in {"yield", "drain"} /\ pending = lastFlush.samples

\* C3: the transform a fused sample carries for a key is the pose at the lidar
\* timestamp computed from the entries that bracket it among all entries
\* ingested for the key before the flush.
C3_TransformFromBracketingEntries ==
    FreshFlush =>
      \A i \in 1..Len(pending) : \A k \in DOMAIN tfHistory :
        /\ k \in DOMAIN pending[i].transforms
        /\ pending[i].transforms[k] \in BracketPoses(tfHistory[k], pending[i].timestamp)

\* the smallest absolute timestamp difference to a frame of a non-empty buffer
MinDiff(targetTimestamp, frames) ==
    MinOf({Abs(frames[j].timestamp - targetTimestamp) : j \in 1..Len(frames)})

\* C4: a flush emits a sample for a lidar entry exactly when the camera buffer
\* is non-empty and the smallest absolute difference is at most syncThreshold;
\* the samples follow lidar-buffer order, carry the lidar timestamp and a
\* camera entry at the smallest difference.
C4_PairedIffWithinThreshold ==
    LET lidarFrames == lastFlush.lidarFrames
        cameraFrames == lastFlush.cameraFrames
        samples == lastFlush.samples
        Paired(e) == /\ cameraFrames # <<>>
                     /\ MinDiff(e.timestamp, cameraFrames) <= syncThreshold
        expected == SelectSeq(lidarFrames, Paired)
    IN /\ Len(samples) = Len(expected)
       /\ \A i \in 1..Len(samples) :
            /\ samples[i].lidar = expected[i]
            /\ samples[i].timestamp = expected[i].timestamp
            /\ samples[i].camera \in Range(cameraFrames)
            /\ Abs(samples[i].camera.timestamp - expected[i].timestamp)
                 = MinDiff(expected[i].timestamp, cameraFrames)

\* C4 witness: a flush of two lidar entries that dropped one and paired the
\* other at a difference equal to the threshold
C4_Witness ==
    /\ syncThreshold = 1
    /\ Len(lastFlush.lidarFrames) = 2
    /\ Len(lastFlush.samples) = 1
    /\ Abs(lastFlush.samples[1].camera.timestamp - lastFlush.samples[1].timestamp) = 1

\* C5: a lidar or camera message triggers a flush exactly when its own topic
\* has a last-seen timestamp and the message is more than maxGap later.
C5_FlushIffGapOnOwnTopic ==
    [][(nMsgs' = nMsgs + 1 /\ streamMessage'.topic \in SensorTopics) =>
         LET topic == streamMessage'.topic
             last == lastTimestamps[topic]
         IN (flushCount' = flushCount + 1)
              <=> (last # None /\ streamMessage'.timestamp - last > maxGap)]_vars

\* C5 witness: a lidar message arrived a gap of exactly maxGap after the last
\* one, with the camera topic silent for longer, and was appended
C5_Witness ==
    /\ pc = "read"
    /\ streamMessage.topic = LIDAR_TOPIC
    /\ Len(chunkBuffer[LIDAR_TOPIC]) = 2
    /\ chunkBuffer[LIDAR_TOPIC][2].timestamp - chunkBuffer[LIDAR_TOPIC][1].timestamp = maxGap
    /\ lastTimestamps[CAMERA_IMAGE_TOPIC] # None
    /\ streamMessage.timestamp - lastTimestamps[CAMERA_IMAGE_TOPIC] > maxGap

\* C6: a gap-triggered flush takes every buffered entry and empties both
\* buffers before the triggering message is appended; no message is read
\* while it runs; once the message has been processed its topic's buffer holds
\* exactly that message, the other buffer is empty and only its topic has a
\* last-seen timestamp.
C6_TriggeringMessageStartsNewWindow ==
    [][LET entry == [timestamp |-> streamMessage.timestamp, rosMsg |-> streamMessage.msg]
           own == streamMessage.topic
       IN /\ (pc = "read" /\ pc' = "yield") =>
               /\ lastFlush'.lidarFrames = chunkBuffer[LIDAR_TOPIC]
               /\ lastFlush'.cameraFrames = chunkBuffer[CAMERA_IMAGE_TOPIC]
               /\ resolved' = resolved \o idsOf(chunkBuffer[LIDAR_TOPIC])
               /\ \A t \in SensorTopics :
                    /\ chunkBuffer'[t] = <<>>
                    /\ \A j \in 1..Len(chunkBuffer[t]) :
                         chunkBuffer[t][j].rosMsg.id # streamMessage'.msg.id
          /\ pc = "yield" =>
               /\ \A t \in SensorTopics : chunkBuffer[t] = <<>>
               /\ nMsgs' = nMsgs
          /\ (pc = "yield" /\ pc' = "read") =>
               \A t \in SensorTopics :
                 /\ chunkBuffer'[t] = IF t = own THEN <<entry>> ELSE <<>>
                 /\ lastTimestamps'[t] = IF t = own THEN entry.timestamp ELSE None]_vars

\* C6 witness: the message that triggered a flush of both buffers has been
\* appended
C6_Witness ==
    /\ pc = "read"
    /\ flushCount = 1
    /\ lastFlush.lidarFrames # <<>>
    /\ lastFlush.cameraFrames # <<>>
    /\ chunkBuffer[streamMessage.topic] = <<chunkEntryOf(streamMessage)>>
    /\ lastFlush.samples # <<>>

\* C7: every flush leaves both buffers empty and every last-seen timestamp
\* unset, and leaves the transform cache as it was.
C7_FlushClearsBuffersKeepsCache ==
    [][flushCount' = flushCount + 1 =>
         /\ \A t \in SensorTopics : chunkBuffer'[t] = <<>> /\ lastTimestamps'[t] = None
         /\ tfCache' = tfCache]_vars

\* C7 witness: a flush called at the end of a window emitted no sample from a
\* non-empty lidar buffer while the cache held entries
C7_Witness ==
    /\ pc = "drain"
    /\ lastFlush.lidarFrames # <<>>
    /\ lastFlush.cameraFrames # <<>>
    /\ lastFlush.samples = <<>>
    /\ DOMAIN tfCache = Keys

\* row i of the persisted sample table holds the fused sample
RowHolds(i, sample) ==
    /\ h5File.timestamps[i] = sample.timestamp
    /\ h5File.chunk_ids[i] = sample.chunkId
    /\ h5File.images[i] = compressedImageToNumpy(sample.camera.rosMsg)
    /\ getitemLidar(h5File, i - 1) = lidarToNumpy(sample.lidar.rosMsg)
    /\ \A k \in DOMAIN sample.transforms :
         /\ k \in DOMAIN h5File.transforms
         /\ Len(h5File.transforms[k]) >= i
         /\ h5File.transforms[k][i] = sample.transforms[k]

\* C8: after a run that ends without failure the rows of the sample table are
\* the fused samples the synchronizer emitted, each once, in emission order.
C8_RowsAreEmittedSamplesInOrder ==
    pc = "done" =>
      /\ h5File.num_samples = Len(emitted)
      /\ Len(h5File.timestamps) = Len(emitted)
      /\ Len(h5File.chunk_ids) = Len(emitted)
      /\ Len(h5File.images) = Len(emitted)
      /\ Len(h5File.offsets) = Len(emitted)
      /\ written = emitted
      /\ \A i \in 1..Len(emitted) : RowHolds(i, emitted[i])

\* C8 witness: a finished run whose three samples came from two flushes and
\* went to the file in two batches, the second starting at row 2
C8_Witness ==
    /\ pc = "done"
    /\ Len(emitted) = 3
    /\ emitted[1].chunkId = 0
    /\ emitted[3].chunkId = 1
    /\ lastCall.startIndex = 2
    /\ Len(lastCall.samples) = 1

\* C9 as claimed: once the stream has ended and the driver has run to its end,
\* both buffers are empty, every lidar message received has been resolved by
\* exactly one flush, and the persisted num_samples is the number of lidar
\* messages that were paired.
C9_StreamEndDrainsAndCounts ==
    (pc \in {"done", "failed"} /\ lastCall.ok) =>
      /\ \A t \in SensorTopics : chunkBuffer[t] = <<>>
      /\ resolved = lidarSeen
      /\ h5File.num_samples = Len(emitted)

\* C11: entry g of the dataset of key k holds the matrix of the written sample
\* with global index g that contains k, whatever was written later, and the
\* dataset of a key is never longer than the sample table.
C11_EntryAtGlobalIndexWithinTable ==
    /\ \A g \in 1..Len(written) : \A k \in DOMAIN written[g].transforms :
         /\ k \in DOMAIN h5File.transforms
         /\ Len(h5File.transforms[k]) >= g
         /\ h5File.transforms[k][g] = written[g].transforms[k]
    /\ \A k \in DOMAIN h5File.transforms :
         Len(h5File.transforms[k]) <= Len(h5File.timestamps)

\* C12 as claimed: a writeBatch call that fails partway applies none of the
\* batch: the sample count, the lengths of the per-sample tables, the pool
\* cursor and the transform datasets are as they were before the call.
C12_FailedBatchAppliesNothing ==
    [][(lastCall' # lastCall /\ ~lastCall'.ok) =>
         /\ attrsGet(h5File'.num_samples) = attrsGet(h5File.num_samples)
         /\ Len(h5File'.timestamps) = Len(h5File.timestamps)
         /\ Len(h5File'.chunk_ids) = Len(h5File.chunk_ids)
         /\ Len(h5File'.offsets) = Len(h5File.offsets)
         /\ Len(h5File'.counts) = Len(h5File.counts)
         /\ Len(h5File'.images) = Len(h5File.images)
         /\ attrsGet(h5File'.lidar_point_offset) = attrsGet(h5File.lidar_point_offset)
         /\ h5File'.transforms = h5File.transforms]_vars

\* C13: for any two rows i < j of the sample table, offset_i <= offset_j and
\* offset_i + count_i <= offset_j, also when an earlier writeBatch call failed
\* partway and later calls succeeded.
C13_PointRangesNeverOverlap ==
    LET n == attrsGet(h5File.num_samples)
    IN \A i \in 1..n : \A j \in 1..n :
         i < j => /\ h5File.offsets[i] <= h5File.offsets[j]
                  /\ h5File.offsets[i] + h5File.counts[i] <= h5File.offsets[j]

\* C13 witness: a batch failed partway after storing points, a later batch
\* succeeded, and its first row starts beyond the end of the row before it
C13_Witness ==
    LET n == attrsGet(h5File.num_samples)
    IN /\ nGiven > Len(written)
       /\ n >= 2
       /\ \E i \in 1..(n - 1) :
            /\ h5File.counts[i] > 0
            /\ h5File.counts[i + 1] > 0
            /\ h5File.offsets[i] + h5File.counts[i] < h5File.offsets[i + 1]

\* the pool capacity and cursor after storing the points of the first
\* `applied` samples of a batch from position index on, growing as the claim
\* states
RECURSIVE CapacityAfter(_, _, _, _, _)
CapacityAfter(samples, applied, index, capacity, cursor) ==
    IF index > applied THEN [capacity |-> capacity, cursor |-> cursor]
    ELSE LET count == samples[index].lidar.rosMsg.n
             needed == cursor + count
             grown == IF needed > capacity
                      THEN (IF needed >= 2 * capacity THEN needed ELSE 2 * capacity)
                      ELSE capacity
         IN CapacityAfter(samples, applied, index + 1, grown, needed)

\* C14: the pool starts at the initial capacity; a sample whose points do not
\* fit makes the capacity exactly max(cursor + count, 2 x capacity), a sample
\* that fits leaves it unchanged; the cursor never exceeds the capacity and
\* the capacity never shrinks before finalize.
C14_PoolGrowsByAmortizedDoubling ==
    [][lastCall' # lastCall =>
         LET capacity == IF h5File.created THEN Len(h5File.data) ELSE INITIAL_LIDAR_CAPACITY
             cursor == attrsGet(h5File.lidar_point_offset)
             after == CapacityAfter(lastCall'.samples, lastCall'.pooled, 1, capacity, cursor)
         IN /\ Len(h5File'.data) = after.capacity
            /\ attrsGet(h5File'.lidar_point_offset) = after.cursor
            /\ after.cursor <= Len(h5File'.data)
            /\ Len(h5File'.data) >= capacity]_vars

\* C14 witness: three samples of 1, 2 and 1 points took the pool from 1 row to
\* 3 (the size needed) and then to 6 (twice the capacity)
C14_Witness ==
    /\ ~h5File.closed
    /\ h5File.num_samples = 3
    /\ h5File.counts = <<1, 2, 1>>
    /\ Len(h5File.data) = 6
    /\ h5File.lidar_point_offset = 4

\* C15 as claimed: after finalize the lidar pool has as many rows as points
\* were written: its length is the pool cursor and the sum of the counts of
\* all samples in the table.
C15_TrimmedToPointsWritten ==
    life.finalize = "completed" =>
      /\ Len(h5File.data) = attrsGet(h5File.lidar_point_offset)
      /\ Len(h5File.data) = SumSeq(Take(h5File.counts, attrsGet(h5File.num_samples)))

\* C16 as claimed: once the driver reaches finalize, whatever the number of
\* fused samples produced, finalize completes, the store is closed and its
\* num_samples attribute is the number of rows written, so the reader opens it.
C16_FinalizeCompletesForAnyCount ==
    [][pc = "finalize" =>
         /\ pc' = "done"
         /\ h5File'.closed
         /\ readerOpens(h5File')
         /\ h5File'.num_samples = Len(written)]_vars

\* the last n entries of a sequence, all of it when it is shorter
LastEntries(s, n) ==
    IF Len(s) <= n THEN s ELSE SubSeq(s, Len(s) - n + 1, Len(s))

\* C17: each key's cached sequence holds at most TF_CACHE_SIZE entries, the
\* most recently ingested ones for the key in arrival order; ingesting into
\* one key never changes the sequence of another key.
C17_CacheKeepsMostRecent ==
    [][/\ DOMAIN tfCache' = DOMAIN tfHistory'
       /\ \A k \in DOMAIN tfCache' :
            /\ Len(tfCache'[k]) <= TF_CACHE_SIZE
            /\ tfCache'[k] = LastEntries(tfHistory'[k], TF_CACHE_SIZE)
       /\ \A k \in DOMAIN tfCache :
            (\A i \in 1..Len(streamMessage'.msg.transforms) :
                streamMessage'.msg.transforms[i].key # k)
              => tfCache'[k] = tfCache[k]]_vars

\* C17 witness: four ingests for k1 left its two most recent entries, and the
\* one entry of k2 is still cached
C17_Witness ==
    /\ DOMAIN tfCache = {"k1", "k2"}
    /\ Len(tfHistory["k1"]) = TF_CACHE_SIZE + 2
    /\ Len(tfCache["k1"]) = TF_CACHE_SIZE
    /\ Len(tfHistory["k2"]) = 1
    /\ tfCache["k2"] = tfHistory["k2"]
    /\ tfHistory["k2"][1].timestamp < tfCache["k1"][1].timestamp

\* C18 as claimed: for every reachable cache content and every target T the
\* scan of a key's sequence takes as "before" an entry with the greatest
\* timestamp <= T and as "after" an entry with the smallest timestamp >= T
\* (and none only where no such entry exists).
C18_ScanFindsBracket ==
    \A k \in DOMAIN tfCache : \A T \in Timestamps :
      LET tfList == tfCache[k]
          idx == scanTf(tfList, T, 1, 0)
          atOrBefore == {tfList[i].timestamp : i \in {j \in 1..Len(tfList) : tfList[j].timestamp <= T}}
          atOrAfter == {tfList[i].timestamp : i \in {j \in 1..Len(tfList) : tfList[j].timestamp >= T}}
      IN /\ (idx[1] = 0) <=> (atOrBefore = {})
         /\ idx[1] # 0 => tfList[idx[1]].timestamp = MaxOf(atOrBefore)
         /\ (idx[2] = 0) <=> (atOrAfter = {})
         /\ idx[2] # 0 => tfList[idx[2]].timestamp = MinOf(atOrAfter)

\* C19 as claimed: a query returns a stored matrix unchanged, without
\* extrapolating, for a target later than every cached timestamp of a key (the
\* last entry's), earlier than every cached timestamp (the first entry's) or
\* equal to a cached timestamp (one stored with that timestamp), and omits a
\* key whose sequence is empty.
C19_NoExtrapolationStoredMatrixReturned ==
    \A T \in (0 - 1)..(MaxTs + 1) :
      LET transforms == interpolateTransforms(tfCache, T)
      IN \A k \in DOMAIN tfCache :
           LET tfList == tfCache[k]
               at == {i \in 1..Len(tfList) : tfList[i].timestamp = T}
           IN IF tfList = <<>> THEN k \notin DOMAIN transforms
              ELSE /\ k \in DOMAIN transforms
                   /\ (\A i \in 1..Len(tfList) : tfList[i].timestamp < T)
                        => transforms[k] = tfList[Len(tfList)].tfMatrix
                   /\ (\A i \in 1..Len(tfList) : tfList[i].timestamp > T)
                        => transforms[k] = tfList[1].tfMatrix
                   /\ at # {} => transforms[k] \in {tfList[i].tfMatrix : i \in at}

\* the entries a transform message holds for key k, in message order
EntriesFor(m, k) ==
    LET mine == SelectSeq(m.msg.transforms, LAMBDA tfStamped : tfStamped.key = k)
    IN [i \in 1..Len(mine) |->
          [timestamp |-> m.timestamp, tfMatrix |-> transformToMatrix(mine[i])]]

\* C20: processing a message on a topic other than lidar and camera changes no
\* chunk buffer and no last-seen timestamp, triggers no flush and emits no
\* sample; a transform message appends one entry per transform it contains to
\* the cache and changes nothing else, a message on any other topic changes no
\* synchronizer state.
C20_NonSensorMessageLeavesBuffers ==
    [][(nMsgs' = nMsgs + 1 /\ streamMessage'.topic \notin SensorTopics) =>
         /\ chunkBuffer' = chunkBuffer
         /\ lastTimestamps' = lastTimestamps
         /\ syncThreshold' = syncThreshold /\ maxGap' = maxGap
         /\ flushCount' = flushCount /\ lastFlush' = lastFlush
         /\ pending' = pending /\ pc' = pc /\ emitted' = emitted
         /\ IF streamMessage'.topic = TF_TOPIC
            THEN LET m == streamMessage'
                     named == {m.msg.transforms[i].key : i \in 1..Len(m.msg.transforms)}
                 IN /\ DOMAIN tfCache' = DOMAIN tfCache \cup named
                    /\ \A k \in DOMAIN tfCache' :
                         LET old == IF k \in DOMAIN tfCache THEN tfCache[k] ELSE <<>>
                         IN tfCache'[k] = LastEntries(old \o EntriesFor(m, k), TF_CACHE_SIZE)
            ELSE tfCache' = tfCache]_vars

\* C20 witness: a transform message with two transforms was processed while
\* both buffers held entries, and both are still buffered
C20_Witness ==
    /\ pc = "read"
    /\ streamMessage.topic = TF_TOPIC
    /\ Len(streamMessage.msg.transforms) = 2
    /\ DOMAIN tfCache = {"k1", "k2"}
    /\ chunkBuffer[LIDAR_TOPIC] # <<>>
    /\ chunkBuffer[CAMERA_IMAGE_TOPIC] # <<>>
    /\ flushCount = 0

\* the positions of the camera buffer at the minimal difference from a target
TiedPositions(targetTimestamp, frames) ==
    {j \in 1..Len(frames) :
        Abs(frames[j].timestamp - targetTimestamp) = MinDiff(targetTimestamp, frames)}

\* C21: when several buffered camera entries are at the same minimal
\* difference from a lidar entry, the sample carries the one at the earliest
\* position of the camera buffer.
C21_TieGoesToEarliestPosition ==
    \A i \in 1..Len(lastFlush.samples) :
      LET sample == lastFlush.samples[i]
          tied == TiedPositions(sample.timestamp, lastFlush.cameraFrames)
      IN sample.camera = lastFlush.cameraFrames[MinOf(tied)]

\* C21 witness: a lidar entry was paired while two camera entries were at the
\* minimal difference, the one buffered first having the later timestamp
C21_Witness ==
    /\ Len(lastFlush.samples) = 1
    /\ Len(lastFlush.cameraFrames) = 2
    /\ lastFlush.cameraFrames[1].timestamp > lastFlush.cameraFrames[2].timestamp
    /\ TiedPositions(lastFlush.samples[1].timestamp, lastFlush.cameraFrames) = {1, 2}
    /\ lastFlush.samples[1].camera = lastFlush.cameraFrames[1]

\* the timestamps of buffered entries, in buffer order
TimestampsOf(frames) == [i \in 1..Len(frames) |-> frames[i].timestamp]

\* the flush of the documented example: lidar entries at 0.0 and 0.2, camera
\* entries at 0.04 and 0.25, syncThreshold 0.05
ExampleFlushed ==
    /\ syncThreshold = ExampleThreshold
    /\ TimestampsOf(lastFlush.lidarFrames) = <<0, 20>>
    /\ TimestampsOf(lastFlush.cameraFrames) = <<4, 25>>

\* C22 as claimed: the flush of the example pairs lidar@0.0 with camera@0.04
\* and drops lidar@0.2, emitting exactly one sample.
C22_ExampleEmitsOneSample ==
    ExampleFlushed =>
      /\ Len(lastFlush.samples) = 1
      /\ lastFlush.samples[1].timestamp = 0
      /\ lastFlush.samples[1].camera.timestamp = 4

\* C22 amended: the flush of the example pairs lidar@0.0 with camera@0.04 and
\* lidar@0.2 with camera@0.25, whose difference equals the threshold, emitting
\* two samples in lidar order.
C22_ExampleEmitsTwoSamples ==
    ExampleFlushed =>
      /\ Len(lastFlush.samples) = 2
      /\ lastFlush.samples[1].timestamp = 0
      /\ lastFlush.samples[1].camera.timestamp = 4
      /\ lastFlush.samples[2].timestamp = 20
      /\ lastFlush.samples[2].camera.timestamp = 25

\* C22 witness: the example has been buffered and flushed
C22_Witness ==
    /\ ExampleFlushed
    /\ pc = "drain"
    /\ pending = lastFlush.samples

\* C23: the per-sample shape of the image array is the shape of the image of
\* the first sample of the first non-empty batch; no later call changes it,
\* and every sample stored has an image of that shape.
C23_ImageShapeFixedAtFirstWrite ==
    [][/\ (~h5File.created /\ h5File'.created) =>
            h5File'.imageShape = imageShapeOf(lastCall'.samples[1].camera.rosMsg)
       /\ h5File.created => h5File'.imageShape = h5File.imageShape
       /\ \A i \in 1..Len(written') :
            imageShapeOf(written'[i].camera.rosMsg) = h5File'.imageShape]_vars

\* C23 witness: after a stored sample fixed the shape, a call given a sample
\* with an image of another shape failed at that sample, and the store is
\* finalized with the shape unchanged
C23_Witness ==
    /\ h5File.closed
    /\ Len(written) >= 1
    /\ ~lastCall.ok
    /\ lastCall.pooled = lastCall.applied + 1
    /\ imageShapeOf(lastCall.samples[lastCall.pooled].camera.rosMsg) # h5File.imageShape
    /\ imageShapeOf(written[1].camera.rosMsg) = h5File.imageShape

\* C24: over any lifetime of a writer the store is closed exactly once. A
\* finalize that completes closes it, and the later destruction neither closes
\* it again nor warns; the destruction of a writer whose finalize was never
\* called or did not complete closes the store and warns once, leaving every
\* dataset and attribute as it was.
C24_StoreClosedExactlyOnce ==
    [][/\ life'.closes <= 1
       /\ life'.destroyed => (life'.closes = 1 /\ h5File'.closed)
       /\ (life.finalize # "completed" /\ life'.finalize = "completed") =>
             (h5File'.closed /\ life'.closes = 1 /\ life'.warnings = 0)
       /\ (~life.destroyed /\ life'.destroyed /\ life.finalize = "completed") =>
             (h5File' = h5File /\ life'.closes = life.closes /\ life'.warnings = 0)
       /\ (~life.destroyed /\ life'.destroyed /\ life.finalize # "completed") =>
             /\ ~h5File.closed
             /\ h5File' = [h5File EXCEPT !.closed = TRUE]
             /\ life'.warnings = 1]_vars

\* C24 witness: a writer whose only finalize call raised, which then stored
\* samples and was destroyed without another finalize: the destructor warned
\* and closed the store with the samples in it
C24_Witness ==
    /\ life.destroyed
    /\ life.finalize = "raised"
    /\ life.warnings = 1 /\ life.closes = 1
    /\ h5File.closed
    /\ Len(written) >= 1
    /\ h5File.num_samples = Len(written)

StaticKeysStored == {h5File.static_transforms.entries[i].key :
                       i \in 1..Len(h5File.static_transforms.entries)}

\* C25 as claimed: after a run that reached finalize the store holds exactly
\* one static-transform entry, keyed by its frame pair, for every frame pair
\* present in the static-transform messages of the log.
C25_OneEntryPerStaticPair ==
    life.finalize # "never" =>
      /\ StaticKeysStored = staticSeen
      /\ Len(h5File.static_transforms.entries) = Cardinality(staticSeen)

\* the samples of the completed batches are the first rows of the table and
\* num_samples counts them
CompletedBatchesRemain ==
    /\ attrsGet(h5File.num_samples) = Len(written)
    /\ \A i \in 1..Len(written) : RowHolds(i, written[i])

\* C26: when a step of the driver run fails (reading the log, decoding or
\* writing a batch, finalize) processing stops at once: no later message is
\* processed, no further writeBatch and no finalize is performed, and the
\* samples of the batches completed before the failure remain in the store
\* with num_samples unchanged.
C26_FailureStopsTheRun ==
    [][/\ (lastCall' # lastCall /\ ~lastCall'.ok) => pc' = "failed"
       /\ (life' # life /\ life'.finalize = "raised") => pc' = "failed"
       /\ (pc # "failed" /\ pc' = "failed") =>
             /\ attrsGet(h5File'.num_samples) = attrsGet(h5File.num_samples)
             /\ written' = written
             /\ totalSamples' = totalSamples
             /\ life'.finalize # "completed"
             /\ CompletedBatchesRemain'
       /\ pc = "failed" =>
             /\ pc' = "failed"
             /\ nMsgs' = nMsgs
             /\ UNCHANGED <<syncVars, streamMessage, pending, sampleBatch, chunkId>>
             /\ lastCall' = lastCall
             /\ life'.finalize = life.finalize
             /\ h5File' = [h5File EXCEPT !.closed = TRUE]
             /\ CompletedBatchesRemain']_vars

\* C26 witness: a first batch of two samples completed, then the residual
\* batch failed while writing; the run stopped without finalize and the store,
\* closed by the destructor, still holds the two samples
C26_Witness ==
    /\ pc = "failed"
    /\ life.destroyed /\ life.finalize = "never"
    /\ ~lastCall.ok
    /\ Len(written) = 2
    /\ h5File.num_samples = 2
    /\ CompletedBatchesRemain
    /\ Len(h5File.timestamps) > 2

\* C27 as claimed: the syncThreshold and maxGap given to the constructor are
\* the values every gap check and every pairing decision of the instance
\* uses, whichever values the instance was constructed with.
C27_InstanceValuesGovern ==
    [][/\ (nMsgs' = nMsgs + 1 /\ streamMessage'.topic \in SensorTopics) =>
            LET last == lastTimestamps[streamMessage'.topic]
            IN (flushCount' = flushCount + 1)
                 <=> (last # None /\ streamMessage'.timestamp - last > maxGap)
       /\ (flushCount' = flushCount + 1) =>
            LET lidarFrames == lastFlush'.lidarFrames
                cameraFrames == lastFlush'.cameraFrames
            IN \A i \in 1..Len(lidarFrames) :
                 (\E j \in 1..Len(lastFlush'.samples) :
                    lastFlush'.samples[j].lidar = lidarFrames[i])
                 <=> (/\ cameraFrames # <<>>
                      /\ MinDiff(lidarFrames[i].timestamp, cameraFrames) <= syncThreshold)]_vars

\* the descriptor a requested name refers to, and whether it lies in the row
DescriptorOf(lidarMsg, fieldName) ==
    CHOOSE f \in Range(lidarMsg.fields) : f.name = fieldName
WithinRow(lidarMsg, fieldName) ==
    LET f == DescriptorOf(lidarMsg, fieldName)
    IN f.offset + itemsize(f.datatype) <= lidarMsg.point_step

\* the value of a field in row r of the payload: the bytes at the declared
\* offset of that row, read with the declared type
DeclaredValue(lidarMsg, fieldName, r) ==
    LET f == DescriptorOf(lidarMsg, fieldName)
        base == (r - 1) * lidarMsg.point_step + f.offset
        size == itemsize(f.datatype)
        bytes == [k \in 1..size |-> lidarMsg.data[base + k]]
    IN IF f.datatype = 7 THEN [bits |-> TRUE, v |-> bytes]
       ELSE IF f.datatype = 1 /\ bytes[1] > 127 THEN [bits |-> FALSE, v |-> bytes[1] - 256]
       ELSE IF f.datatype = 2 THEN [bits |-> FALSE, v |-> bytes[1]]
       ELSE IF f.datatype = 1 THEN [bits |-> FALSE, v |-> bytes[1]]
       ELSE [bits |-> FALSE, v |-> bytes[1] + 256 * bytes[2]]

\* C28: for a message of N rows of point_step bytes and requested names that
\* all have a descriptor lying within the row, lidarToNumpy returns an N x F
\* float32 matrix (N = 0 allowed) whose column j holds, for each row, the value
\* of the j-th requested field read at its declared offset with its declared
\* type, whatever padding or other fields lie between.
C28_ColumnsReadAtDeclaredOffsets ==
    converterCall.fn = "lidarToNumpy" =>
      LET lidarMsg == converterCall.lidarMsg
          fieldNames == converterCall.fieldNames
          result == converterCall.result
          N == Len(lidarMsg.data) \div lidarMsg.point_step
      IN (\A j \in 1..Len(fieldNames) :
            /\ \E f \in Range(lidarMsg.fields) : f.name = fieldNames[j]
            /\ WithinRow(lidarMsg, fieldNames[j]))
         => /\ result.raised = ""
            /\ result.dtype = "float32"
            /\ result.shape = <<N, Len(fieldNames)>>
            /\ Len(result.pointCloud) = N
            /\ \A r \in 1..N :
                 /\ Len(result.pointCloud[r]) = Len(fieldNames)
                 /\ \A j \in 1..Len(fieldNames) :
                      result.pointCloud[r][j] = DeclaredValue(lidarMsg, fieldNames[j], r)

\* C28 witness: two rows of four bytes with a signed byte at offset 0, a
\* padding byte and a 16-bit field at offset 2, requested in the other order
C28_Witness ==
    /\ converterCall.fn = "lidarToNumpy"
    /\ converterCall.lidarMsg.point_step = 4
    /\ converterCall.lidarMsg.fields
         = <<[name |-> "x", offset |-> 0, datatype |-> 1],
             [name |-> "intensity", offset |-> 2, datatype |-> 4]>>
    /\ converterCall.fieldNames = <<"intensity", "x">>
    /\ converterCall.result.raised = ""
    /\ converterCall.result.shape = <<2, 2>>
    /\ converterCall.result.pointCloud[1][2].v < 0

\* C29: lidarToNumpy fails with an error naming a missing field whenever any
\* requested name has no descriptor in the message, whatever the position of
\* that name in the request and whatever the payload (zero rows included); it
\* returns no matrix and fabricates no values.
C29_MissingFieldRaises ==
    converterCall.fn = "lidarToNumpy" =>
      LET lidarMsg == converterCall.lidarMsg
          fieldNames == converterCall.fieldNames
          result == converterCall.result
          absent == {fieldNames[k] : k \in 1..Len(fieldNames)}
                      \ {lidarMsg.fields[i].name : i \in 1..Len(lidarMsg.fields)}
      IN absent # {} =>
           /\ result.raised = "ValueError"
           /\ Len(result.message) = 2
           /\ result.message[1] = "PointCloud2 missing field: "
           /\ result.message[2] \in absent
           /\ "pointCloud" \notin DOMAIN result

\* C29 witness: a message of zero rows that describes x only, asked for x and
\* then y: the error names y
C29_Witness ==
    /\ converterCall.fn = "lidarToNumpy"
    /\ converterCall.lidarMsg.data = <<>>
    /\ Len(converterCall.lidarMsg.fields) = 1
    /\ converterCall.lidarMsg.fields[1].name = "x"
    /\ converterCall.fieldNames = <<"x", "y">>
    /\ converterCall.result.raised = "ValueError"
    /\ converterCall.result.message = <<"PointCloud2 missing field: ", "y">>

\* C30: for every pair of rigid transforms start and end,
\* interpolateMatrix(start, end, alpha = 0) is start and
\* interpolateMatrix(start, end, alpha = 1) is end, in the translation and in
\* the rotation block.
C30_EndpointsReproduced ==
    converterCall.fn = "interpolateMatrix" =>
      /\ converterCall.num = 0 =>
           /\ converterCall.result.translation = converterCall.matrix1.translation
           /\ converterCall.result.rotation = converterCall.matrix1.rotation
           /\ converterCall.result = converterCall.matrix1
      /\ converterCall.num = converterCall.den =>
           /\ converterCall.result.translation = converterCall.matrix2.translation
           /\ converterCall.result.rotation = converterCall.matrix2.rotation
           /\ converterCall.result = converterCall.matrix2

\* C30 witness: alpha = 1 between transforms that differ in translation and in
\* rotation, the quaternion of the second one negated before the blend
C30_Witness ==
    /\ converterCall.fn = "interpolateMatrix"
    /\ converterCall.num = converterCall.den
    /\ converterCall.flipped
    /\ converterCall.matrix1.translation # converterCall.matrix2.translation
    /\ converterCall.matrix1.rotation # converterCall.matrix2.rotation
    /\ converterCall.result = converterCall.matrix2

\* the cosine of the angle of the rotation that leads from block1 to block2, as
\* a fraction in lowest terms: (trace(block1^T block2) - 1) / 2
CosAngleBetween(block1, block2) ==
    LET t == SumSeq([k \in 1..9 |->
                 block1.num[1 + ((k - 1) \div 3)][1 + ((k - 1) % 3)]
                   * block2.num[1 + ((k - 1) \div 3)][1 + ((k - 1) % 3)]])
        d == block1.den * block2.den
        g == Gcd(Abs(t - d), 2 * d)
    IN [num |-> (t - d) \div g, den |-> (2 * d) \div g]

\* cos(n * angle) from cos(angle) = c.num / c.den, times c.den^n: the Chebyshev
\* recurrence T(n+1) = 2 x T(n) - T(n-1)
RECURSIVE CosMultiple(_, _)
CosMultiple(n, c) ==
    IF n = 0 THEN 1
    ELSE IF n = 1 THEN c.num
    ELSE 2 * c.num * CosMultiple(n - 1, c) - c.den * c.den * CosMultiple(n - 2, c)

RECURSIVE Power(_, _)
Power(b, n) == IF n = 0 THEN 1 ELSE b * Power(b, n - 1)

\* C31 as claimed: for every alpha = num/den in [0, 1] the rotation block
\* returned by interpolateMatrix is the spherical interpolation along the
\* shorter arc: the rotation that leads from the start to the result has
\* alpha times the shortest angle between start and end. With reached the
\* angle from start to result and whole the one from start to end, that is
\* den * reached = num * whole, hence cos(den * reached) = cos(num * whole),
\* and reached is not larger than whole.
C31_RotationIsSlerp ==
    converterCall.fn = "interpolateMatrix" =>
      LET whole == CosAngleBetween(converterCall.matrix1.rotation,
                                   converterCall.matrix2.rotation)
          reached == CosAngleBetween(converterCall.matrix1.rotation,
                                     converterCall.result.rotation)
          num == converterCall.num
          den == converterCall.den
      IN /\ CosMultiple(den, reached) * Power(whole.den, num)
              = CosMultiple(num, whole) * Power(reached.den, den)
         /\ reached.num * whole.den >= whole.num * reached.den

\* C32 as claimed: calling interpolateMatrix(start, end) without an alpha
\* argument succeeds and produces the same result as calling it with
\* alpha = 0.5.
C32_DefaultAlphaIsHalf ==
    converterCall.fn = "interpolateMatrix(matrix1, matrix2)" =>
      /\ converterCall.result.raised = ""
      /\ converterCall.result.matrix
           = interpolateRigid(converterCall.matrix1, converterCall.matrix2, 1, 2,
                              converterCall.sign1, converterCall.sign2)

\* the query of key k interpolates: the scan found a "before" and an "after"
\* entry and they are not the same entry
Interpolates(tfList, targetTimestamp) ==
    LET idx == scanTf(tfList, targetTimestamp, 1, 0)
    IN idx[1] # 0 /\ idx[2] # 0 /\ idx[1] # idx[2]

\* C33: whenever a transform query interpolates between two entries, the
\* "before" entry precedes the "after" entry in the sequence and
\* beforeTs < target < afterTs holds strictly, whatever the cache holds (sorted
\* or not, with or without repeated timestamps); so the divisor
\* afterTs - beforeTs is not zero, alpha lies strictly between 0 and 1 before
\* clamping, and the transform returned is the blend at that alpha.
C33_InterpolationBracketsTarget ==
    converterCall.fn = "interpolateTransforms" =>
      \A k \in DOMAIN converterCall.tfCache :
        LET tfList == converterCall.tfCache[k]
            target == converterCall.targetTimestamp
            idx == scanTf(tfList, target, 1, 0)
            before == tfList[idx[1]]
            after == tfList[idx[2]]
            num == target - before.timestamp
            den == after.timestamp - before.timestamp
        IN Interpolates(tfList, target) =>
             /\ idx[1] < idx[2]
             /\ before.timestamp < target /\ target < after.timestamp
             /\ den # 0
             /\ 0 < num /\ num < den
             /\ clipAlpha(num, den) = num
             /\ converterCall.result[k]
                  = interpolateMatrix(before.tfMatrix, after.tfMatrix, num, den)

\* C33 witness: a query at 1 on the sequence of timestamps 0, 3, 3, 2, which
\* is not sorted and repeats a timestamp, interpolates between the first two
\* entries at alpha = 1/3
C33_Witness ==
    /\ converterCall.fn = "interpolateTransforms"
    /\ converterCall.targetTimestamp = 1
    /\ "k1" \in DOMAIN converterCall.tfCache
    /\ TimestampsOf(converterCall.tfCache["k1"]) = <<0, 3, 3, 2>>
    /\ converterCall.tfCache["k1"][1].tfMatrix = 0
    /\ converterCall.tfCache["k1"][2].tfMatrix = PoseScale
    /\ Interpolates(converterCall.tfCache["k1"], 1)
    /\ converterCall.result["k1"] = PoseScale \div 3

\* C34: the transform keys of a fused sample are exactly the frame-pair keys
\* ingested into the cache before the flush that emits it: every sample of
\* every flush carries a transform for every key ingested so far and for no
\* other key, so all samples of one flush carry the same keys and a key once
\* ingested is carried by every later sample.
C34_SampleCarriesEveryIngestedKey ==
    [][(flushCount' = flushCount + 1) =>
         /\ tfHistory' = tfHistory
         /\ \A j \in 1..Len(lastFlush'.samples) :
              /\ DOMAIN lastFlush'.samples[j].transforms = DOMAIN tfHistory
              /\ DOMAIN lastFlush'.samples[j].transforms
                   = DOMAIN lastFlush'.samples[1].transforms]_vars

\* C34 witness: a flush emitted two samples that carry both keys, one of them
\* ingested once only, with a timestamp later than that of either sample
C34_Witness ==
    /\ flushCount >= 1
    /\ Len(lastFlush.samples) = 2
    /\ DOMAIN tfHistory = {"k1", "k2"}
    /\ Len(tfHistory["k2"]) = 1
    /\ \A j \in 1..2 :
         /\ DOMAIN lastFlush.samples[j].transforms = {"k1", "k2"}
         /\ tfHistory["k2"][1].timestamp > lastFlush.samples[j].timestamp

\* the arrival numbers of the entries of both buffers
BufferedIds(buffers) ==
    UNION {{buffers[t][i].rosMsg.id : i \in 1..Len(buffers[t])} : t \in SensorTopics}

\* C35: the lidar entry and the camera entry of every fused sample were
\* buffered in the same window: both arrived after the preceding flush and
\* before the flush that emits the sample. A flush pairs entries of the two
\* buffers as they are when it starts, all of which arrived before it and
\* after everything the preceding flush took, and leaves nothing behind; the
\* message that triggers it is in neither buffer, is not part of any of its
\* samples whatever its timestamp, and a buffer otherwise changes only by
\* taking the message being processed at its end.
C35_SamplePairsWithinOneWindow ==
    [][/\ (flushCount' = flushCount + 1) =>
            /\ \A j \in 1..Len(lastFlush'.samples) :
                 /\ \E i \in 1..Len(chunkBuffer[LIDAR_TOPIC]) :
                      lastFlush'.samples[j].lidar = chunkBuffer[LIDAR_TOPIC][i]
                 /\ \E i \in 1..Len(chunkBuffer[CAMERA_IMAGE_TOPIC]) :
                      lastFlush'.samples[j].camera = chunkBuffer[CAMERA_IMAGE_TOPIC][i]
                 /\ nMsgs' = nMsgs + 1 =>
                      /\ lastFlush'.samples[j].camera.rosMsg.id # streamMessage'.msg.id
                      /\ lastFlush'.samples[j].lidar.rosMsg.id # streamMessage'.msg.id
            /\ pending' = lastFlush'.samples
            /\ \A id \in BufferedIds(chunkBuffer) :
                 /\ id <= nMsgs
                 /\ \A old \in BufferedIds([t \in SensorTopics |->
                                              IF t = LIDAR_TOPIC THEN lastFlush.lidarFrames
                                              ELSE lastFlush.cameraFrames]) : old < id
            /\ chunkBuffer' = emptyBuffers
       /\ (flushCount' = flushCount) =>
            \A t \in SensorTopics :
              \/ chunkBuffer'[t] = chunkBuffer[t]
              \/ /\ streamMessage'.topic = t
                 /\ chunkBuffer'[t] = Append(chunkBuffer[t], chunkEntryOf(streamMessage'))
                 /\ \A id \in BufferedIds(chunkBuffer) : id < streamMessage'.msg.id]_vars

\* C35 witness: a camera message triggered a flush that resolved a lidar entry
\* with that message's own timestamp; the entry was not paired with it, the
\* flush emitted no sample, and the message went into the next window
C35_Witness ==
    /\ flushCount = 1
    /\ pc = "read"
    /\ streamMessage.topic = CAMERA_IMAGE_TOPIC
    /\ chunkBuffer = [emptyBuffers EXCEPT
                        ![CAMERA_IMAGE_TOPIC] = <<chunkEntryOf(streamMessage)>>]
    /\ lastFlush.cameraFrames # <<>>
    /\ \E i \in 1..Len(lastFlush.lidarFrames) :
         lastFlush.lidarFrames[i].timestamp = streamMessage.timestamp
    /\ lastFlush.samples = <<>>

\* C36: the chunk id stored with a sample is the number of earlier flushes of
\* the run that emitted at least one sample: every sample the driver takes
\* from a flush is tagged with the number of emitting flushes before that
\* one (so the samples of one flush share an id, those of different flushes
\* differ, and a flush without samples does not advance the id), and the
\* sample table holds those ids row by row: they start at 0 and go up by
\* steps of 0 or 1.
C36_ChunkIdCountsEmittingFlushes ==
    [][/\ Len(emitted') > Len(emitted) =>
            /\ lastFlush' = lastFlush
            /\ \A i \in (Len(emitted) + 1)..Len(emitted') :
                 emitted'[i].chunkId = lastFlush.emitting - 1
       /\ h5File'.created =>
            \A i \in 1..attrsGet(h5File'.num_samples) :
              /\ h5File'.chunk_ids[i] = emitted'[i].chunkId
              /\ i = 1 => h5File'.chunk_ids[i] = 0
              /\ i > 1 => h5File'.chunk_ids[i] - h5File'.chunk_ids[i - 1] \in {0, 1}]_vars

\* C36 witness: a finished run whose table holds two samples of the first
\* window with chunk id 0 and one of the residual flush with chunk id 1
C36_Witness ==
    /\ pc = "done"
    /\ life.finalize = "completed"
    /\ flushCount = 2
    /\ attrsGet(h5File.num_samples) = 3
    /\ SubSeq(h5File.chunk_ids, 1, 3) = <<0, 0, 1>>
    /\ Len(emitted) = 3
    /\ lastFlush.emitting = 2

\* the yielded chunks that hold message m
ChunksHolding(m) ==
    {c \in 1..Len(handler.chunks) :
       \E j \in 1..Len(handler.chunks[c][m.topic]) :
         handler.chunks[c][m.topic][j].rosMsg.id = m.msg.id}

\* C37 as claimed: once the iteration over the log has ended, every lidar,
\* camera and transform message read from the log is in exactly one of the
\* chunks yielded, the messages buffered after the last gap-triggered flush
\* included.
C37_EveryMessageInOneChunk ==
    handler.pc = "done" =>
      \A i \in 1..Len(handler.read) :
        handler.read[i].topic \in HandlerTopics =>
          Cardinality(ChunksHolding(handler.read[i])) = 1

====
